---- MODULE Spec2Model ----
(***************************************************************************)
(* Parametric plastic-part configurator: the configuration store, the      *)
(* interactive 2D preview (hit-testing, drag, zoom, pan, click routing),   *)
(* the hole editor and the custom-shape drawing state.                     *)
(*                                                                         *)
(* Real numbers of the program (millimetres, pixels, zoom factors) are     *)
(* exact rationals <<n, d>> with d > 0 in lowest terms.                    *)
(***************************************************************************)
EXTENDS Integers, Sequences, FiniteSets, TLC

VARIABLES
    config,                 \* store: PartConfig
    customShapeFinalized,   \* store: boolean
    savedCustomShape,       \* store: <<>> (null) or <<[points, finalized]>>
    hoveredHole,            \* InteractivePreview2D: hole id or Null
    draggingHole,           \* InteractivePreview2D: hole id or Null
    dragOffset,             \* InteractivePreview2D: [x, y] pixels
    zoom,                   \* InteractivePreview2D: zoom factor
    pan,                    \* InteractivePreview2D: [x, y] pixels
    isPanning,              \* InteractivePreview2D: boolean
    panStart,               \* InteractivePreview2D: [x, y]
    editingHole,            \* ParametricEditor: <<>> (null) or <<hole>>
    now,                    \* Date.now(), milliseconds
    ptr,                    \* pointer position, client coordinates [x, y]
    pressed,                \* mouse button held over the canvas: -1 none, 0 primary, 1 middle
    moved,                  \* the pointer moved since the button went down
    pendingClick,           \* click event owed by the browser after a mouse-up:
                            \* "none", or "plain" / "drag" / "pan" by the gesture it ends
    steps,                  \* number of events handled so far
    guarded,                \* every store call so far met the condition the UI puts on it
    isOrdering,             \* ParametricEditor: boolean
    isGeneratingCAD,        \* ParametricEditor: boolean
    orderStatus,            \* ParametricEditor: the status line
    notification,           \* ParametricEditor: <<>> (null) or <<[type, message, n]>>
    noteSeq,                \* number of notifications set so far
    timers,                 \* pending setTimeout(() => setNotification(null), delay)
    orders,                 \* handlePlaceOrder calls waiting at an await
    downloads,              \* handleDownloadCAD calls waiting at their await
    savedFiles,             \* files handed to the browser by downloadBlob
    lastCad,                \* <<>> or <<[config, net, result]>> of the last generateCADFiles
    lastOrder,              \* <<>> or <<[net, result]>> of the last submitOrder
    rendered,               \* <<>> or <<outlines built from config by the renderers>>
    selectedIndex,          \* CustomShapeDrawer: <<>> (null) or <<index>>, from 1
    draggingIndex,          \* CustomShapeDrawer: <<>> (null) or <<index>>, from 1
    hoveredIndex,           \* CustomShapeDrawer: <<>> (null) or <<index>>, from 1
    formValues,             \* ParametricEditor: values of the dimension form (watch())
    editorTimeout,          \* ParametricEditor: the debounce timeout is pending
    panelState,             \* DimensionsPanel: width, height, thickness, cornerRadius
    panelTimers,            \* DimensionsPanel: effects whose timeout is pending
    storeWrites,            \* set calls made on the store, modulo MaxWrites
    edits                   \* values typed by the user so far

vars == <<config, customShapeFinalized, savedCustomShape, hoveredHole,
          draggingHole, dragOffset, zoom, pan, isPanning, panStart,
          editingHole, now, ptr, pressed, moved, pendingClick, steps, guarded,
          isOrdering, isGeneratingCAD, orderStatus, notification, noteSeq, timers,
          orders, downloads, savedFiles, lastCad, lastOrder, rendered,
          selectedIndex, draggingIndex, hoveredIndex,
          formValues, editorTimeout, panelState, panelTimers, storeWrites, edits>>

storeVars == <<config, customShapeFinalized, savedCustomShape>>
viewVars == <<zoom, pan>>
gestureVars == <<hoveredHole, draggingHole, dragOffset, isPanning, panStart>>
mouseVars == <<ptr, pressed, moved, pendingClick>>
previewVars == <<viewVars, gestureVars, editingHole, now, mouseVars>>
drawerVars == <<selectedIndex, draggingIndex, hoveredIndex>>
syncVars == <<formValues, editorTimeout, panelState, panelTimers, storeWrites, edits>>
partVars == <<storeVars, previewVars, steps, guarded, rendered, drawerVars, syncVars>>
requestVars == <<isOrdering, isGeneratingCAD, orderStatus, notification, noteSeq,
                 timers, orders, downloads, savedFiles, lastCad, lastOrder>>

-----------------------------------------------------------------------------
(* Bounds of the model                                                     *)

MaxSteps == 8
MaxHoles == 2
MaxNow == 1
MaxPan == 50
MaxZoomTerm == 6
MaxZoomTermDeep == 10000000
MaxPoints == 3
MaxNotes == 4
MaxZoomTermTransform == 25
MaxRequestHoles == 1

\* store writes are counted modulo MaxWrites
MaxWrites == 4

\* values typed into the dimension form and the dimensions panel in one run
MaxEdits == 2

-----------------------------------------------------------------------------
(* Exact rational arithmetic                                               *)

Abs(n) == IF n < 0 THEN -n ELSE n

RECURSIVE GCD(_, _)
GCD(a, b) == IF b = 0 THEN a ELSE GCD(b, a % b)

Norm(n, d) ==
    LET g == GCD(Abs(n), d)
    IN  IF g = 0 THEN <<0, 1>> ELSE <<n \div g, d \div g>>

R(n) == <<n, 1>>
Q(n, d) == Norm(n, d)

RAdd(a, b) == Norm(a[1] * b[2] + b[1] * a[2], a[2] * b[2])
RSub(a, b) == Norm(a[1] * b[2] - b[1] * a[2], a[2] * b[2])
RMul(a, b) ==
    LET g1 == GCD(Abs(a[1]), b[2])
        g2 == GCD(Abs(b[1]), a[2])
        h1 == IF g1 = 0 THEN 1 ELSE g1
        h2 == IF g2 = 0 THEN 1 ELSE g2
    IN  Norm((a[1] \div h1) * (b[1] \div h2), (a[2] \div h2) * (b[2] \div h1))
RInv(a) == IF a[1] < 0 THEN <<-a[2], -a[1]>> ELSE <<a[2], a[1]>>
RDiv(a, b) == RMul(a, RInv(b))
RLeq(a, b) == a[1] * b[2] <= b[1] * a[2]
RLt(a, b) == a[1] * b[2] < b[1] * a[2]
RMin(a, b) == IF RLeq(a, b) THEN a ELSE b
RMax(a, b) == IF RLeq(a, b) THEN b ELSE a

\* Math.round: nearest integer, halves towards +infinity
MathRound(a) == (2 * a[1] + a[2]) \div (2 * a[2])

\* Math.round(v * 10) / 10
Round10(v) == Norm(MathRound(RMul(v, R(10))), 10)

\* a^2 + b^2 <= c^2 for integers below 2^22, without 32-bit overflow
WideSq(x) ==
    LET ax == Abs(x)
        xh == ax \div 2048
        xl == ax % 2048
        m  == 2 * xh * xl
        lo == (m % 2048) * 2048 + xl * xl
    IN  <<xh * xh + (m \div 2048) + (lo \div 4194304), lo % 4194304>>

WideAdd(p, q) ==
    LET lo == p[2] + q[2]
    IN  <<p[1] + q[1] + (lo \div 4194304), lo % 4194304>>

WideLeq(p, q) == p[1] < q[1] \/ (p[1] = q[1] /\ p[2] <= q[2])

\* Math.sqrt(dx^2 + dy^2) <= r  for rationals dx, dy, r
DistanceLeq(dx, dy, r) ==
    LET l1 == (dx[2] * dy[2]) \div GCD(dx[2], dy[2])
        l  == (l1 * r[2]) \div GCD(l1, r[2])
        a  == dx[1] * (l \div dx[2])
        b  == dy[1] * (l \div dy[2])
        c  == r[1] * (l \div r[2])
    IN  /\ c >= 0
        /\ WideLeq(WideAdd(WideSq(a), WideSq(b)), WideSq(c))

-----------------------------------------------------------------------------
(* The configuration store                                                 *)

Null == <<>>

Forms == {"none", "rectangle", "circle", "pentagon", "custom", "line"}

defaultConfig ==
    [ form |-> "none",
      width |-> R(400),
      height |-> R(400),
      thickness |-> R(16),
      material |-> "PEEK",
      color |-> "#6B6B6B",
      cornerRadius |-> R(0),
      holes |-> <<>>,
      customPoints |-> <<>>,
      showMeasurements |-> FALSE,
      viewMode |-> "front",
      displayMode |-> "2d" ]

Hole(id, x, y, diameter) == [id |-> id, x |-> x, y |-> y, diameter |-> diameter]

\* addHole placing the new hole first
addHolePrepend(cfg, hole) == [cfg EXCEPT !.holes = <<hole>> \o @]

\* the store's addHole: append
addHole(cfg, hole) == [cfg EXCEPT !.holes = Append(@, hole)]

\* the store's updateHole with a partial update of x and y
updateHoleXY(cfg, id, x, y) ==
    [cfg EXCEPT !.holes =
        [i \in 1..Len(@) |->
            IF @[i].id = id THEN [@[i] EXCEPT !.x = x, !.y = y] ELSE @[i]]]

\* the store's updateHole with a whole Hole as the update
updateHoleAll(cfg, id, updates) ==
    [cfg EXCEPT !.holes =
        [i \in 1..Len(@) |-> IF @[i].id = id THEN updates ELSE @[i]]]

\* the store's removeHole: filter
removeHole(cfg, id) ==
    [cfg EXCEPT !.holes = SelectSeq(@, LAMBDA h : h.id # id)]

removeAllHoles(cfg) == [cfg EXCEPT !.holes = <<>>]

\* updateForm saving the custom shape also when it has no points
updateFormSavesEmpty(cfg, finalized, saved, form) ==
    LET restore == form = "custom" /\ saved # Null
        save == form # "custom" /\ cfg.form = "custom"
    IN  [ config |->
            [cfg EXCEPT !.form = form,
                        !.holes = <<>>,
                        !.customPoints = IF restore THEN saved[1].points ELSE <<>>],
          customShapeFinalized |-> IF restore THEN saved[1].finalized ELSE FALSE,
          savedCustomShape |->
            IF save THEN <<[points |-> cfg.customPoints, finalized |-> finalized]>>
            ELSE saved ]

\* updateForm keeping the holes when the selected form is the active one
updateFormKeepsHoles(cfg, finalized, saved, form) ==
    LET restore == form = "custom" /\ saved # Null
        save == /\ form # "custom"
                /\ cfg.form = "custom"
                /\ Len(cfg.customPoints) > 0
    IN  [ config |->
            [cfg EXCEPT !.form = form,
                        !.holes = IF form = cfg.form THEN @ ELSE <<>>,
                        !.customPoints = IF restore THEN saved[1].points ELSE <<>>],
          customShapeFinalized |-> IF restore THEN saved[1].finalized ELSE FALSE,
          savedCustomShape |->
            IF save THEN <<[points |-> cfg.customPoints, finalized |-> finalized]>>
            ELSE saved ]

\* the store's updateForm, on the store state (config, customShapeFinalized,
\* savedCustomShape)
updateForm(cfg, finalized, saved, form) ==
    LET restore == form = "custom" /\ saved # Null
        save == /\ form # "custom"
                /\ cfg.form = "custom"
                /\ Len(cfg.customPoints) > 0
    IN  [ config |->
            [cfg EXCEPT !.form = form,
                        !.holes = <<>>,
                        !.customPoints = IF restore THEN saved[1].points ELSE <<>>],
          customShapeFinalized |-> IF restore THEN saved[1].finalized ELSE FALSE,
          savedCustomShape |->
            IF save THEN <<[points |-> cfg.customPoints, finalized |-> finalized]>>
            ELSE saved ]

addCustomPoint(cfg, point) == [cfg EXCEPT !.customPoints = Append(@, point)]

updateCustomPoint(cfg, index, point) ==
    [cfg EXCEPT !.customPoints =
        [i \in 1..Len(@) |-> IF i = index THEN point ELSE @[i]]]

\* filter((_, i) => i !== index); indices from 1 here
removeCustomPoint(cfg, index) ==
    [cfg EXCEPT !.customPoints =
        [i \in 1..(Len(@) - (IF index \in 1..Len(@) THEN 1 ELSE 0)) |->
            IF i < index THEN @[i] ELSE @[i + 1]]]

\* slice(0, -1)
removeLastCustomPoint(cfg) ==
    [cfg EXCEPT !.customPoints =
        IF Len(@) = 0 THEN <<>> ELSE SubSeq(@, 1, Len(@) - 1)]

\* useForm defaultValues: the values of the store at the first render
InitialFormValues ==
    [ width |-> defaultConfig.width, height |-> defaultConfig.height,
      thickness |-> defaultConfig.thickness, material |-> defaultConfig.material ]

\* useState(config.width), ... of DimensionsPanel
InitialPanelState ==
    [ width |-> defaultConfig.width, height |-> defaultConfig.height,
      thickness |-> defaultConfig.thickness, cornerRadius |-> defaultConfig.cornerRadius ]

\* the three debounce effects of DimensionsPanel; each runs after the first
\* render
PanelEffects == { "dimensions", "thickness", "cornerRadius" }

Init ==
    /\ config = defaultConfig
    /\ customShapeFinalized = FALSE
    /\ savedCustomShape = Null
    /\ hoveredHole = Null
    /\ draggingHole = Null
    /\ dragOffset = [x |-> R(0), y |-> R(0)]
    /\ zoom = R(1)
    /\ pan = [x |-> R(0), y |-> R(0)]
    /\ isPanning = FALSE
    /\ panStart = [x |-> R(0), y |-> R(0)]
    /\ editingHole = Null
    /\ now = 0
    /\ ptr = [x |-> 678, y |-> 305]
    /\ pressed = -1
    /\ moved = FALSE
    /\ pendingClick = "none"
    /\ steps = 0
    /\ guarded = TRUE
    /\ isOrdering = FALSE
    /\ isGeneratingCAD = FALSE
    /\ orderStatus = ""
    /\ notification = Null
    /\ noteSeq = 0
    /\ timers = {}
    /\ orders = <<>>
    /\ downloads = <<>>
    /\ savedFiles = {}
    /\ lastCad = Null
    /\ lastOrder = Null
    /\ rendered = Null
    /\ selectedIndex = Null
    /\ draggingIndex = Null
    /\ hoveredIndex = Null
    /\ formValues = InitialFormValues
    /\ editorTimeout = TRUE
    /\ panelState = InitialPanelState
    /\ panelTimers = PanelEffects
    /\ storeWrites = 0
    /\ edits = 0

-----------------------------------------------------------------------------
(* InteractivePreview2D: coordinate mapping and hit-testing                *)

CanvasWidth == 600
CanvasHeight == 450
padding == 40

\* canvas.getBoundingClientRect(): the canvas is displayed at 1800 x 1350 CSS px
Rect == [left |-> 0, top |-> 0, width |-> 1800, height |-> 1350]

Point(x, y) == [x |-> x, y |-> y]

getScaleAndOffset(cfg, z, p) ==
    LET scaleX == RDiv(R(CanvasWidth - padding * 2), cfg.width)
        scaleY == RDiv(R(CanvasHeight - padding * 2), cfg.height)
        baseScale == RMin(scaleX, scaleY)
        scale == RMul(baseScale, z)
    IN  [ scale |-> scale,
          offsetX |-> RAdd(RDiv(RSub(R(CanvasWidth), RMul(cfg.width, scale)), R(2)), p.x),
          offsetY |-> RAdd(RDiv(RSub(R(CanvasHeight), RMul(cfg.height, scale)), R(2)), p.y) ]

\* e.clientX, e.clientY  ->  canvas coordinates
getCanvasCoordinates(e) ==
    LET scaleX == Q(CanvasWidth, Rect.width)
        scaleY == Q(CanvasHeight, Rect.height)
    IN  Point(RMul(R(e.x - Rect.left), scaleX), RMul(R(e.y - Rect.top), scaleY))

\* getPartCoordinates with the scale and offsets of zoom 1
getPartCoordinatesUnzoomed(canvasX, canvasY, cfg, z, p) ==
    LET sd == getScaleAndOffset(cfg, R(1), p)
    IN  Point(RDiv(RSub(canvasX, sd.offsetX), sd.scale),
              RDiv(RSub(canvasY, sd.offsetY), sd.scale))

getPartCoordinates(canvasX, canvasY, cfg, z, p) ==
    LET sd == getScaleAndOffset(cfg, z, p)
    IN  Point(RDiv(RSub(canvasX, sd.offsetX), sd.scale),
              RDiv(RSub(canvasY, sd.offsetY), sd.scale))

\* projected centre of a hole: offset + position * scale
holeCentre(hole, sd) ==
    Point(RAdd(sd.offsetX, RMul(hole.x, sd.scale)),
          RAdd(sd.offsetY, RMul(hole.y, sd.scale)))

\* distance <= holeRadius + 5
holeHit(hole, canvasX, canvasY, sd) ==
    LET c == holeCentre(hole, sd)
        holeRadius == RMul(RDiv(hole.diameter, R(2)), sd.scale)
    IN  DistanceLeq(RSub(canvasX, c.x), RSub(canvasY, c.y), RAdd(holeRadius, R(5)))

\* the last hole that is hit instead of the first
findHoleAtPositionLast(canvasX, canvasY, cfg, z, p) ==
    LET sd == getScaleAndOffset(cfg, z, p)
        hits == {i \in 1..Len(cfg.holes) : holeHit(cfg.holes[i], canvasX, canvasY, sd)}
    IN  IF hits = {} THEN <<>>
        ELSE <<cfg.holes[CHOOSE i \in hits : \A j \in hits : i >= j]>>

\* first hole of config.holes that is hit, as <<hole>>; <<>> for null
findHoleAtPosition(canvasX, canvasY, cfg, z, p) ==
    LET sd == getScaleAndOffset(cfg, z, p)
        hits == {i \in 1..Len(cfg.holes) : holeHit(cfg.holes[i], canvasX, canvasY, sd)}
    IN  IF hits = {} THEN <<>>
        ELSE <<cfg.holes[CHOOSE i \in hits : \A j \in hits : i <= j]>>

\* Array.prototype.find(h => h.id === id)
findHoleById(cfg, id) ==
    LET is == {i \in 1..Len(cfg.holes) : cfg.holes[i].id = id}
    IN  IF is = {} THEN <<>>
        ELSE <<cfg.holes[CHOOSE i \in is : \A j \in is : i <= j]>>

\* Math.max(radius, Math.min(limit - radius, v))
constrain(v, radius, limit) == RMax(radius, RMin(RSub(limit, radius), v))

\* Date.now().toString() and `${timestamp}-tl`: a timestamp and a suffix
HoleId(t, suffix) == <<t, suffix>>

-----------------------------------------------------------------------------
(* Inputs                                                                  *)

\* pointer positions in client coordinates
Pointers ==
    { Point(900, 675),      \* the centre of the canvas
      Point(678, 305),      \* part (100, 100) of a 440 x 600 part
      Point(420, 420),      \* part (50, 50) of a 260 x 185 part
      Point(456, 447),      \* 15 canvas px away from the previous one
      Point(1680, 1230) }   \* bottom-right

\* values of the dimension form (watchedValues)
FormValues ==
    { [width |-> R(440), height |-> R(600), thickness |-> R(5), material |-> "PE 500"],
      [width |-> R(260), height |-> R(185), thickness |-> R(16), material |-> "PEEK"] }

\* forms selected while holes are edited
EditorForms == { "rectangle" }

\* e.button of a press: primary or middle
Buttons == { 0, 1 }

\* values typed into the hole editor
EditPositions == { R(50), R(1000) }
EditDiameters == { Q(17, 2), R(10) }

-----------------------------------------------------------------------------
(* ParametricEditor                                                        *)

modalOpen == editingHole # Null

\* a button outside the canvas can be clicked: no mouse button is held on the
\* canvas and no click on the canvas is being delivered
buttonsFree == pendingClick = "none" /\ pressed = -1

\* debounce timeout: updateDimensions, updateThickness, updateMaterial
debounceSync ==
    /\ pendingClick = "none"
    /\ \E watchedValues \in FormValues :
          /\ <<config.width, config.height>> # <<watchedValues.width, watchedValues.height>>
          /\ config' = [config EXCEPT !.width = watchedValues.width,
                                       !.height = watchedValues.height,
                                       !.thickness = watchedValues.thickness,
                                       !.material = watchedValues.material]
    /\ UNCHANGED <<customShapeFinalized, savedCustomShape, previewVars>>

\* the form selector: updateForm(form)
SelectForm(forms) ==
    /\ buttonsFree /\ ~modalOpen
    /\ \E form \in forms :
          LET st == updateForm(config, customShapeFinalized, savedCustomShape, form)
          IN  /\ config' = st.config
              /\ customShapeFinalized' = st.customShapeFinalized
              /\ savedCustomShape' = st.savedCustomShape
    /\ UNCHANGED previewVars

\* "+ Add Hole"
handleAddHole ==
    /\ buttonsFree /\ ~modalOpen
    /\ Len(config.holes) < MaxHoles
    /\ config' = addHole(config,
                    Hole(HoleId(now, ""), RDiv(config.width, R(2)),
                         RDiv(config.height, R(2)), R(8)))
    /\ UNCHANGED <<customShapeFinalized, savedCustomShape, viewVars, gestureVars,
                   editingHole, now, mouseVars>>

\* onCanvasClick without the rounding to 0.1 mm
handleCanvasClickExact(cfg, x, y) ==
    addHole(cfg, Hole(HoleId(now, ""), x, y, R(8)))

\* onCanvasClick
handleCanvasClick(cfg, x, y) ==
    addHole(cfg, Hole(HoleId(now, ""), Round10(x), Round10(y), R(8)))

\* onHoleDrag
handleHoleDrag(cfg, holeId, x, y) ==
    updateHoleXY(cfg, holeId, Round10(x), Round10(y))

\* "Remove" in the hole list
RemoveHoleButton ==
    /\ buttonsFree /\ ~modalOpen
    /\ \E i \in 1..Len(config.holes) :
          config' = removeHole(config, config.holes[i].id)
    /\ UNCHANGED <<customShapeFinalized, savedCustomShape, viewVars, gestureVars,
                   editingHole, now, mouseVars>>

\* "Edit" in the hole list: setEditingHole(hole)
handleListEdit ==
    /\ buttonsFree /\ ~modalOpen
    /\ \E i \in 1..Len(config.holes) : editingHole' = <<config.holes[i]>>
    /\ UNCHANGED <<storeVars, viewVars, gestureVars, now, mouseVars>>

\* HoleEditor "Save Changes" with the field values x, y, diameter
handleSave ==
    /\ buttonsFree /\ modalOpen
    /\ \E x \in EditPositions, y \in EditPositions, diameter \in EditDiameters :
          LET editedHole == [editingHole[1] EXCEPT !.x = x, !.y = y, !.diameter = diameter]
              radius == RDiv(editedHole.diameter, R(2))
              validX == constrain(editedHole.x, radius, config.width)
              validY == constrain(editedHole.y, radius, config.height)
              updatedHole == [editedHole EXCEPT !.x = validX, !.y = validY]
          IN  config' = updateHoleAll(config, updatedHole.id, updatedHole)
    /\ editingHole' = Null
    /\ UNCHANGED <<customShapeFinalized, savedCustomShape, viewVars, gestureVars,
                   now, mouseVars>>

\* HoleEditor "Remove": onRemove(); onClose()
handleEditorRemove ==
    /\ buttonsFree /\ modalOpen
    /\ config' = removeHole(config, editingHole[1].id)
    /\ editingHole' = Null
    /\ UNCHANGED <<customShapeFinalized, savedCustomShape, viewVars, gestureVars,
                   now, mouseVars>>

\* HoleEditor "Cancel": onClose()
handleEditorClose ==
    /\ buttonsFree /\ modalOpen
    /\ editingHole' = Null
    /\ UNCHANGED <<storeVars, viewVars, gestureVars, now, mouseVars>>

-----------------------------------------------------------------------------
(* InteractivePreview2D: view operations                                   *)

ZoomFits(z, cap) == z[1] <= cap /\ z[2] <= cap
PanFits(p) ==
    /\ RLeq(R(-MaxPan), p.x) /\ RLeq(p.x, R(MaxPan))
    /\ RLeq(R(-MaxPan), p.y) /\ RLeq(p.y, R(MaxPan))

canvasFree == pendingClick = "none" /\ ~modalOpen

\* wheel event with deltaY > 0 (down) or deltaY <= 0
wheelZoom(z, deltaYPositive) ==
    LET delta == IF deltaYPositive THEN Q(9, 10) ELSE Q(11, 10)
    IN  RMax(Q(1, 2), RMin(R(5), RMul(z, delta)))

handleWheel(cap) ==
    /\ canvasFree
    /\ \E deltaYPositive \in BOOLEAN :
          /\ zoom' = wheelZoom(zoom, deltaYPositive)
          /\ ZoomFits(zoom', cap)
    /\ UNCHANGED <<storeVars, pan, gestureVars, editingHole, now, mouseVars>>

zoomInStep(z) == RMin(R(5), RMul(z, Q(6, 5)))

handleZoomIn(cap) ==
    /\ canvasFree /\ pressed = -1
    /\ zoom' = zoomInStep(zoom)
    /\ ZoomFits(zoom', cap)
    /\ UNCHANGED <<storeVars, pan, gestureVars, editingHole, now, mouseVars>>

\* zoom out without the lower clamp
zoomOutStepUnclamped(z) == RDiv(z, Q(6, 5))

zoomOutStep(z) == RMax(Q(1, 2), RDiv(z, Q(6, 5)))

handleZoomOut(cap) ==
    /\ canvasFree /\ pressed = -1
    /\ zoom' = zoomOutStep(zoom)
    /\ ZoomFits(zoom', cap)
    /\ UNCHANGED <<storeVars, pan, gestureVars, editingHole, now, mouseVars>>

handleResetView ==
    /\ canvasFree /\ pressed = -1
    /\ zoom' = R(1)
    /\ pan' = Point(R(0), R(0))
    /\ UNCHANGED <<storeVars, gestureVars, editingHole, now, mouseVars>>

\* handlePanUp / handlePanDown / handlePanLeft / handlePanRight
handlePanButton ==
    /\ canvasFree /\ pressed = -1
    /\ \E d \in { <<0, 50>>, <<0, -50>>, <<50, 0>>, <<-50, 0>> } :
          pan' = Point(RAdd(pan.x, R(d[1])), RAdd(pan.y, R(d[2])))
    /\ PanFits(pan')
    /\ UNCHANGED <<storeVars, zoom, gestureVars, editingHole, now, mouseVars>>

-----------------------------------------------------------------------------
(* InteractivePreview2D: pointer events                                    *)

\* onMouseDown at the pointer position with e.button and e.shiftKey
handleMouseDown ==
    /\ canvasFree
    /\ pressed = -1
    /\ \E button \in Buttons, shiftKey \in BOOLEAN :
          /\ pressed' = button
          /\ moved' = FALSE
          /\ IF button = 1 \/ (button = 0 /\ shiftKey)
             THEN /\ isPanning' = TRUE
                  /\ panStart' = Point(RSub(R(ptr.x), pan.x), RSub(R(ptr.y), pan.y))
                  /\ UNCHANGED <<draggingHole, dragOffset>>
             ELSE LET coords == getCanvasCoordinates(ptr)
                      hole == findHoleAtPosition(coords.x, coords.y, config, zoom, pan)
                  IN  IF hole # <<>>
                      THEN LET sd == getScaleAndOffset(config, zoom, pan)
                               c == holeCentre(hole[1], sd)
                           IN  /\ draggingHole' = hole[1].id
                               /\ dragOffset' = Point(RSub(coords.x, c.x), RSub(coords.y, c.y))
                               /\ UNCHANGED <<isPanning, panStart>>
                      ELSE UNCHANGED <<draggingHole, dragOffset, isPanning, panStart>>
    /\ UNCHANGED <<storeVars, viewVars, hoveredHole, editingHole, now, ptr, pendingClick>>

\* the position a dragged hole is moved to by a pointer at canvas coords
dragTarget(coords, hole, cfg, z, p, off) ==
    LET partCoords == getPartCoordinates(RSub(coords.x, off.x), RSub(coords.y, off.y), cfg, z, p)
        radius == RDiv(hole.diameter, R(2))
    IN  Point(constrain(partCoords.x, radius, cfg.width),
              constrain(partCoords.y, radius, cfg.height))

\* onMouseMove: the pointer moves to e
handleMouseMove ==
    /\ canvasFree
    /\ \E e \in Pointers \ {ptr} :
          /\ ptr' = e
          /\ moved' = (moved \/ pressed # -1)
          /\ IF isPanning
             THEN /\ pan' = Point(RSub(R(e.x), panStart.x), RSub(R(e.y), panStart.y))
                  /\ PanFits(pan')
                  /\ UNCHANGED <<config, hoveredHole>>
             ELSE LET coords == getCanvasCoordinates(e)
                  IN  IF draggingHole # Null
                      THEN LET hole == findHoleById(config, draggingHole)
                           IN  /\ IF hole # <<>>
                                  THEN LET t == dragTarget(coords, hole[1], config, zoom, pan, dragOffset)
                                       IN  config' = handleHoleDrag(config, draggingHole, t.x, t.y)
                                  ELSE UNCHANGED config
                               /\ UNCHANGED <<pan, hoveredHole>>
                      ELSE LET hole == findHoleAtPosition(coords.x, coords.y, config, zoom, pan)
                           IN  /\ hoveredHole' = IF hole # <<>> THEN hole[1].id ELSE Null
                               /\ UNCHANGED <<config, pan>>
    /\ UNCHANGED <<customShapeFinalized, savedCustomShape, zoom, draggingHole, dragOffset,
                   isPanning, panStart, editingHole, now, pressed, pendingClick>>

\* onMouseUp; the browser then delivers a click for the primary button
\* handleMouseUp without setDraggingHole(null)
handleMouseUpKeepsDrag ==
    /\ canvasFree
    /\ pressed # -1
    /\ isPanning' = FALSE
    /\ pressed' = -1
    /\ pendingClick' = IF pressed # 0 THEN "none"
                       ELSE IF moved /\ isPanning THEN "pan"
                       ELSE IF moved /\ draggingHole # Null THEN "drag"
                       ELSE "plain"
    /\ UNCHANGED <<storeVars, viewVars, hoveredHole, draggingHole, dragOffset, panStart,
                   editingHole, now, ptr, moved>>

handleMouseUp ==
    /\ canvasFree
    /\ pressed # -1
    /\ draggingHole' = Null
    /\ dragOffset' = Point(R(0), R(0))
    /\ isPanning' = FALSE
    /\ pressed' = -1
    /\ pendingClick' = IF pressed # 0 THEN "none"
                       ELSE IF moved /\ isPanning THEN "pan"
                       ELSE IF moved /\ draggingHole # Null THEN "drag"
                       ELSE "plain"
    /\ UNCHANGED <<storeVars, viewVars, hoveredHole, panStart, editingHole, now, ptr, moved>>

\* onMouseLeave={handleMouseUp}; the button is released outside the canvas
handleMouseLeave ==
    /\ canvasFree
    /\ draggingHole' = Null
    /\ dragOffset' = Point(R(0), R(0))
    /\ isPanning' = FALSE
    /\ pressed' = -1
    /\ UNCHANGED <<storeVars, viewVars, hoveredHole, panStart, editingHole, now, ptr,
                   moved, pendingClick>>

\* onClick without the hit test: every click within the part adds a hole
handleClickAlwaysAdds ==
    /\ pendingClick # "none"
    /\ pendingClick' = "none"
    /\ LET coords == getCanvasCoordinates(ptr)
           partCoords == getPartCoordinates(coords.x, coords.y, config, zoom, pan)
       IN  IF /\ RLeq(R(0), partCoords.x) /\ RLeq(partCoords.x, config.width)
              /\ RLeq(R(0), partCoords.y) /\ RLeq(partCoords.y, config.height)
           THEN /\ Len(config.holes) < MaxHoles
                /\ config' = handleCanvasClick(config, partCoords.x, partCoords.y)
                /\ UNCHANGED editingHole
           ELSE UNCHANGED <<config, editingHole>>
    /\ UNCHANGED <<customShapeFinalized, savedCustomShape, viewVars, gestureVars, now,
                   ptr, pressed, moved>>

\* onClick at the pointer position
handleClick ==
    /\ pendingClick # "none"
    /\ pendingClick' = "none"
    /\ LET coords == getCanvasCoordinates(ptr)
           hole == findHoleAtPosition(coords.x, coords.y, config, zoom, pan)
       IN  IF hole # <<>>
           THEN /\ editingHole' = <<hole[1]>>
                /\ UNCHANGED config
           ELSE LET partCoords == getPartCoordinates(coords.x, coords.y, config, zoom, pan)
                IN  IF /\ RLeq(R(0), partCoords.x) /\ RLeq(partCoords.x, config.width)
                       /\ RLeq(R(0), partCoords.y) /\ RLeq(partCoords.y, config.height)
                    THEN /\ Len(config.holes) < MaxHoles
                         /\ config' = handleCanvasClick(config, partCoords.x, partCoords.y)
                         /\ UNCHANGED editingHole
                    ELSE UNCHANGED <<config, editingHole>>
    /\ UNCHANGED <<customShapeFinalized, savedCustomShape, viewVars, gestureVars, now,
                   ptr, pressed, moved>>

\* the clock of Date.now() advances
Tick ==
    /\ now < MaxNow
    /\ now' = now + 1
    /\ UNCHANGED <<storeVars, viewVars, gestureVars, editingHole, mouseVars>>

Step ==
    /\ steps < MaxSteps /\ steps' = steps + 1
    /\ UNCHANGED <<guarded, requestVars, drawerVars, syncVars, rendered>>

Next ==
    \/ Step /\ Tick
    \/ Step /\ debounceSync
    \/ Step /\ SelectForm(EditorForms)
    \/ Step /\ handleAddHole
    \/ Step /\ RemoveHoleButton
    \/ Step /\ handleListEdit
    \/ Step /\ handleSave
    \/ Step /\ handleEditorRemove
    \/ Step /\ handleEditorClose
    \/ Step /\ handleZoomIn(MaxZoomTerm)
    \/ Step /\ handleZoomOut(MaxZoomTerm)
    \/ Step /\ handleMouseDown
    \/ Step /\ handleMouseMove
    \/ Step /\ handleMouseUp
    \/ Step /\ handleMouseLeave
    \/ Step /\ handleClick

Spec == Init /\ [][Next]_vars

-----------------------------------------------------------------------------
\* The view controls on their own: zoom and pan to any depth the magnitude
\* bound allows, under a fixed part.

NextView ==
    \/ handleWheel(MaxZoomTermDeep) /\ UNCHANGED <<steps, guarded, requestVars, drawerVars, syncVars, rendered>>
    \/ handleZoomIn(MaxZoomTermDeep) /\ UNCHANGED <<steps, guarded, requestVars, drawerVars, syncVars, rendered>>
    \/ handleZoomOut(MaxZoomTermDeep) /\ UNCHANGED <<steps, guarded, requestVars, drawerVars, syncVars, rendered>>
    \/ handleResetView /\ UNCHANGED <<steps, guarded, requestVars, drawerVars, syncVars, rendered>>
    \/ handlePanButton /\ UNCHANGED <<steps, guarded, requestVars, drawerVars, syncVars, rendered>>

SpecView == Init /\ [][NextView]_vars

-----------------------------------------------------------------------------
\* The custom-shape part of the store: its operations called in any order.
\* guarded records whether every call so far met the condition under which
\* the components make it.

\* vertices offered to the point operations
PointChoices == { Point(R(0), R(0)), Point(R(100), R(50)) }

\* "Finish Shape" offered from 2 points on
finishOfferedFromTwo(cfg, finalized) == ~finalized /\ Len(cfg.customPoints) >= 2

\* Canvas "Finish Shape" is rendered only for an unfinalized shape of 3 points
finishOffered(cfg, finalized) == ~finalized /\ Len(cfg.customPoints) >= 3

\* CustomShapeDrawer edits points only while !isFinalized
editOffered(finalized) == ~finalized

ShapeForms == { "rectangle", "custom" }

ShapeSelectForm ==
    /\ \E form \in ShapeForms :
          LET st == updateForm(config, customShapeFinalized, savedCustomShape, form)
          IN  /\ config' = st.config
              /\ customShapeFinalized' = st.customShapeFinalized
              /\ savedCustomShape' = st.savedCustomShape
    /\ UNCHANGED <<previewVars, steps, requestVars, drawerVars, syncVars, rendered, guarded>>

AddCustomPoint ==
    /\ Len(config.customPoints) < MaxPoints
    /\ \E point \in PointChoices : config' = addCustomPoint(config, point)
    /\ UNCHANGED <<customShapeFinalized, savedCustomShape, previewVars, steps, requestVars, drawerVars, syncVars, rendered, guarded>>

UpdateCustomPoint ==
    /\ \E index \in 1..Len(config.customPoints), point \in PointChoices :
          config' = updateCustomPoint(config, index, point)
    /\ UNCHANGED <<customShapeFinalized, savedCustomShape, previewVars, steps, requestVars, drawerVars, syncVars, rendered, guarded>>

RemoveCustomPoint ==
    /\ \E index \in 1..Len(config.customPoints) :
          config' = removeCustomPoint(config, index)
    /\ guarded' = (guarded /\ editOffered(customShapeFinalized))
    /\ UNCHANGED <<customShapeFinalized, savedCustomShape, previewVars, steps, requestVars, drawerVars, syncVars, rendered>>

RemoveLastCustomPoint ==
    /\ config' = removeLastCustomPoint(config)
    /\ guarded' = (guarded /\ editOffered(customShapeFinalized))
    /\ UNCHANGED <<customShapeFinalized, savedCustomShape, previewVars, steps, requestVars, drawerVars, syncVars, rendered>>

SetCustomPoints ==
    /\ \E point \in PointChoices, n \in 0..MaxPoints :
          config' = [config EXCEPT !.customPoints = [i \in 1..n |-> point]]
    /\ guarded' = (guarded /\ editOffered(customShapeFinalized))
    /\ UNCHANGED <<customShapeFinalized, savedCustomShape, previewVars, steps, requestVars, drawerVars, syncVars, rendered>>

ClearCustomPoints ==
    /\ config' = [config EXCEPT !.customPoints = <<>>]
    /\ customShapeFinalized' = FALSE
    /\ UNCHANGED <<savedCustomShape, previewVars, steps, requestVars, drawerVars, syncVars, rendered, guarded>>

FinalizeCustomShape ==
    /\ customShapeFinalized' = TRUE
    /\ guarded' = (guarded /\ finishOffered(config, customShapeFinalized))
    /\ UNCHANGED <<config, savedCustomShape, previewVars, steps, requestVars, drawerVars, syncVars, rendered>>

EditCustomShape ==
    /\ customShapeFinalized' = FALSE
    /\ UNCHANGED <<config, savedCustomShape, previewVars, steps, requestVars, drawerVars, syncVars, rendered, guarded>>

ResetConfig ==
    /\ config' = defaultConfig
    /\ customShapeFinalized' = FALSE
    /\ UNCHANGED <<savedCustomShape, previewVars, steps, requestVars, drawerVars, syncVars, rendered, guarded>>

NextShape ==
    \/ ShapeSelectForm
    \/ AddCustomPoint
    \/ UpdateCustomPoint
    \/ RemoveCustomPoint
    \/ RemoveLastCustomPoint
    \/ SetCustomPoints
    \/ ClearCustomPoints
    \/ FinalizeCustomShape
    \/ EditCustomShape
    \/ ResetConfig

SpecShape == Init /\ [][NextShape]_vars

-----------------------------------------------------------------------------
\* Download CAD and Place Order: the requests to the backend, the in-flight
\* flags, the notification and its auto-dismiss timers.  The backend is the
\* environment: each reply is drawn from the outcomes below.

\* outcomes of the network calls of generateCADFiles: the generate request,
\* response.json(), the two file fetches with their blob(), data.validation;
\* a call after the first one that fails is never made
CadOutcomes ==
    { net \in [ generate : {"ok", "non2xx", "throws"},
                json : {"ok", "throws"},
                files : {"ok", "throws"},
                validation : {"undefined", "valid", "warnings", "invalid"} ] :
        /\ net.generate # "ok" => net.json = "ok"
        /\ net.json # "ok" \/ net.generate # "ok" => net.files = "ok"
        /\ net.files # "ok" \/ net.json # "ok" \/ net.generate # "ok"
              => net.validation = "undefined" }

\* outcomes of the network calls of submitOrder: the order request,
\* response.json(), data.status, and those of its fallback generateCADFiles
OrderOutcomes ==
    { net \in [ order : {"ok", "non2xx", "throws"},
                json : {"ok", "throws"},
                status : {"pending", "processing", "completed", "failed"},
                cad : { c \in CadOutcomes : c.validation = "undefined" /\ c.json = "ok"
                                             /\ c.generate # "non2xx" } ] :
        /\ net.order # "ok" => net.json = "ok"
        /\ net.order # "ok" \/ net.json # "ok" => net.status = "pending"
        /\ net.order = "ok" /\ net.json = "ok" => net.cad.generate = "throws" }

\* metadata of a result, from the part it describes
Metadata(cfg) ==
    [ width |-> cfg.width, height |-> cfg.height, thickness |-> cfg.thickness,
      material |-> cfg.material, holeCount |-> Len(cfg.holes) ]

\* generateCADFilesFallback: files generated in the browser
generateCADFilesFallback(cfg) ==
    [ state |-> "resolved", source |-> "local",
      metadata |-> Metadata(cfg), validation |-> "absent" ]

\* the try block of generateCADFiles; data.metadata is the backend's
\* description of the part it was sent
generateCADFilesTry(cfg, net) ==
    IF net.generate = "ok" /\ net.json = "ok" /\ net.files = "ok"
    THEN [ state |-> "resolved", source |-> "backend",
           metadata |-> Metadata(cfg), validation |-> net.validation ]
    ELSE [ state |-> "thrown" ]

\* generateCADFiles with the catch clause left out
generateCADFilesNoCatch(cfg, net) ==
    LET r == generateCADFilesTry(cfg, net)
    IN  IF r.state = "thrown" THEN [ state |-> "rejected" ] ELSE r

generateCADFiles(cfg, net) ==
    LET r == generateCADFilesTry(cfg, net)
    IN  IF r.state = "thrown" THEN generateCADFilesFallback(cfg) ELSE r

submitOrder(cfg, net) ==
    IF net.order = "ok" /\ net.json = "ok"
    THEN [ orderId |-> "order_number", status |-> net.status, message |-> "submitted" ]
    ELSE IF generateCADFiles(cfg, net.cad).state = "resolved"
    THEN [ orderId |-> "ORD-now", status |-> "pending", message |-> "created locally" ]
    ELSE [ orderId |-> "", status |-> "failed", message |-> "error.message" ]

\* setNotification({type, message}); n numbers the notifications set
Note(type, message, n) == <<[type |-> type, message |-> message, n |-> n]>>

\* setTimeout(() => setNotification(null), delay), started while
\* notification n was the one set
Timer(n, delay) == [for |-> n, delay |-> delay]

\* disabled={isOrdering || isGeneratingCAD} of Place Order
orderDisabledNever == FALSE

orderDisabled == isOrdering \/ isGeneratingCAD

\* disabled={isGeneratingCAD || isOrdering} of Download CAD
downloadDisabled == isGeneratingCAD \/ isOrdering

\* s without its i-th element
Without(s, i) == [j \in 1..(Len(s) - 1) |-> IF j < i THEN s[j] ELSE s[j + 1]]

\* onClick={handlePlaceOrder}, up to the await of submitOrder
handlePlaceOrder ==
    /\ ~orderDisabled
    /\ noteSeq + 2 <= MaxNotes
    /\ isOrdering' = TRUE
    /\ orderStatus' = "Processing order..."
    /\ notification' = Note("success", "Processing order...", noteSeq + 1)
    /\ noteSeq' = noteSeq + 2
    /\ orders' = Append(orders, [pc |-> "submitOrder", config |-> config, n |-> noteSeq + 2])
    /\ UNCHANGED <<isGeneratingCAD, timers, downloads, savedFiles, lastCad, lastOrder>>
    /\ UNCHANGED partVars

\* handlePlaceOrder taking every status but 'failed' for a success
orderSubmittedUnlessFailed ==
    \E i \in 1..Len(orders), net \in OrderOutcomes :
        LET o == orders[i]
            result == submitOrder(o.config, net)
        IN  /\ o.pc = "submitOrder"
            /\ lastOrder' = <<[net |-> net, result |-> result]>>
            /\ IF result.status # "failed"
               THEN /\ orderStatus' = "Order submitted"
                    /\ notification' = Note("success", "Order submitted", o.n)
                    /\ orders' = [orders EXCEPT ![i] =
                                    [pc |-> "generateCADFiles", config |-> o.config,
                                     n |-> o.n, orderId |-> result.orderId]]
                    /\ UNCHANGED <<isOrdering, timers>>
               ELSE /\ orderStatus' = "Order failed"
                    /\ notification' = Note("error", "Order failed", o.n)
                    /\ timers' = timers \cup {Timer(o.n, 10000)}
                    /\ isOrdering' = FALSE
                    /\ orders' = Without(orders, i)
            /\ UNCHANGED <<isGeneratingCAD, noteSeq, downloads, savedFiles, lastCad>>
            /\ UNCHANGED partVars

\* submitOrder settles for the i-th waiting handlePlaceOrder
orderSubmitted ==
    \E i \in 1..Len(orders), net \in OrderOutcomes :
        LET o == orders[i]
            result == submitOrder(o.config, net)
        IN  /\ o.pc = "submitOrder"
            /\ lastOrder' = <<[net |-> net, result |-> result]>>
            /\ IF result.status = "pending"
               THEN /\ orderStatus' = "Order submitted"
                    /\ notification' = Note("success", "Order submitted", o.n)
                    /\ orders' = [orders EXCEPT ![i] =
                                    [pc |-> "generateCADFiles", config |-> o.config,
                                     n |-> o.n, orderId |-> result.orderId]]
                    /\ UNCHANGED <<isOrdering, timers>>
               ELSE /\ orderStatus' = "Order failed"
                    /\ notification' = Note("error", "Order failed", o.n)
                    /\ timers' = timers \cup {Timer(o.n, 10000)}
                    /\ isOrdering' = FALSE
                    /\ orders' = Without(orders, i)
            /\ UNCHANGED <<isGeneratingCAD, noteSeq, downloads, savedFiles, lastCad>>
            /\ UNCHANGED partVars

\* generateCADFiles settles for the i-th waiting handlePlaceOrder
orderFilesGenerated ==
    \E i \in 1..Len(orders), net \in CadOutcomes :
        LET o == orders[i]
            cadFiles == generateCADFiles(o.config, net)
        IN  /\ o.pc = "generateCADFiles"
            /\ lastCad' = <<[config |-> o.config, net |-> net, result |-> cadFiles]>>
            /\ IF cadFiles.state = "resolved"
               THEN /\ savedFiles' = savedFiles \cup {<<"part", o.orderId, "step">>,
                                                      <<"part", o.orderId, "dxf">>}
                    /\ timers' = timers \cup {Timer(o.n, 5000)}
                    /\ UNCHANGED <<orderStatus, notification>>
               ELSE /\ orderStatus' = "Error"
                    /\ notification' = Note("error", "Order error", o.n)
                    /\ timers' = timers \cup {Timer(o.n, 10000)}
                    /\ UNCHANGED savedFiles
            /\ isOrdering' = FALSE
            /\ orders' = Without(orders, i)
            /\ UNCHANGED <<isGeneratingCAD, noteSeq, downloads, lastOrder>>
            /\ UNCHANGED partVars

\* onClick={handleDownloadCAD}, up to the await of generateCADFiles
handleDownloadCAD ==
    /\ ~downloadDisabled
    /\ ~isGeneratingCAD
    /\ noteSeq + 2 <= MaxNotes
    /\ isGeneratingCAD' = TRUE
    /\ notification' = Note("success", "Generating CAD files...", noteSeq + 1)
    /\ noteSeq' = noteSeq + 2
    /\ downloads' = Append(downloads, [config |-> config, n |-> noteSeq + 2])
    /\ UNCHANGED <<isOrdering, orderStatus, timers, orders, savedFiles, lastCad, lastOrder>>
    /\ UNCHANGED partVars

\* generateCADFiles settles for the i-th waiting handleDownloadCAD
downloadFilesGenerated ==
    \E i \in 1..Len(downloads), net \in CadOutcomes :
        LET d == downloads[i]
            cadFiles == generateCADFiles(d.config, net)
        IN  /\ lastCad' = <<[config |-> d.config, net |-> net, result |-> cadFiles]>>
            /\ IF cadFiles.state # "resolved"
               THEN /\ notification' = Note("error", "Failed to generate CAD files", d.n)
                    /\ timers' = timers \cup {Timer(d.n, 10000)}
                    /\ UNCHANGED savedFiles
               ELSE IF cadFiles.validation = "invalid"
               THEN /\ notification' = Note("error", "CAD file validation failed", d.n)
                    /\ UNCHANGED <<timers, savedFiles>>
               ELSE /\ notification' =
                         IF cadFiles.validation = "warnings"
                         THEN Note("warning", "CAD files generated with warnings", d.n)
                         ELSE IF cadFiles.validation = "absent"
                         THEN Note("success", "CAD files downloaded successfully!", d.n)
                         ELSE Note("success", "CAD files generated successfully!", d.n)
                    /\ savedFiles' = savedFiles \cup {<<"plastic_part", "", "step">>,
                                                      <<"plastic_part", "", "dxf">>}
                    /\ timers' = timers \cup {Timer(d.n, 5000)}
            /\ isGeneratingCAD' = FALSE
            /\ downloads' = Without(downloads, i)
            /\ UNCHANGED <<isOrdering, orderStatus, noteSeq, orders, lastOrder>>
            /\ UNCHANGED partVars

\* a pending timer fires: setNotification(null)
timerFires ==
    \E t \in timers :
        /\ timers' = timers \ {t}
        /\ notification' = Null
        /\ UNCHANGED <<isOrdering, isGeneratingCAD, orderStatus, noteSeq, orders,
                       downloads, savedFiles, lastCad, lastOrder>>
        /\ UNCHANGED partVars

\* the close button of the notification, rendered while !isGeneratingCAD
dismissNotification ==
    /\ notification # Null
    /\ ~isGeneratingCAD
    /\ notification' = Null
    /\ UNCHANGED <<isOrdering, isGeneratingCAD, orderStatus, noteSeq, timers, orders,
                   downloads, savedFiles, lastCad, lastOrder>>
    /\ UNCHANGED partVars

\* the part is edited while requests are in flight
editPart ==
    /\ \/ handleAddHole /\ Len(config.holes) < MaxRequestHoles
       \/ debounceSync
    /\ UNCHANGED <<requestVars, drawerVars, syncVars>>

NextRequests ==
    \/ handlePlaceOrder
    \/ orderSubmitted
    \/ orderFilesGenerated
    \/ handleDownloadCAD
    \/ downloadFilesGenerated
    \/ timerFires
    \/ dismissNotification
    \/ editPart /\ UNCHANGED <<steps, guarded, rendered>>

SpecRequests == Init /\ [][NextRequests]_vars

\* timers fire and requests settle; the user need not do anything
SpecRequestsLive ==
    /\ Init
    /\ [][NextRequests]_vars
    /\ WF_vars(timerFires)
    /\ WF_vars(orderSubmitted)
    /\ WF_vars(orderFilesGenerated)
    /\ WF_vars(downloadFilesGenerated)

-----------------------------------------------------------------------------
\* The profile builders: the outline each renderer builds from the config, as
\* the sequence of path commands it issues.  Lengths are in the builder's own
\* frame: part space for Canvas (after translate and scale), canvas pixels for
\* InteractivePreview2D, part space centred on the origin for PlasticPart.

updateDimensions(cfg, width, height) == [cfg EXCEPT !.width = width, !.height = height]

updateCornerRadius(cfg, radius) == [cfg EXCEPT !.cornerRadius = radius]

RNeg(a) == RSub(R(0), a)

\* points.forEach((point, i) => i === 0 ? moveTo(point) : lineTo(point))
PolyLine(points, offsetX, offsetY, scale) ==
    [ i \in 1..Len(points) |->
        << IF i = 1 THEN "moveTo" ELSE "lineTo",
           RAdd(offsetX, RMul(points[i].x, scale)),
           RAdd(offsetY, RMul(points[i].y, scale)) >> ]

\* Canvas drawPart, front view: the part outline
drawPart(cfg, finalized) ==
    LET r == cfg.cornerRadius
        width == cfg.width
        height == cfg.height
    IN  IF cfg.form = "rectangle"
        THEN IF RLt(R(0), r)
             THEN << <<"moveTo", r, R(0)>>,
                     <<"lineTo", RSub(width, r), R(0)>>,
                     <<"arcTo", width, R(0), width, r, r>>,
                     <<"lineTo", width, RSub(height, r)>>,
                     <<"arcTo", width, height, RSub(width, r), height, r>>,
                     <<"lineTo", r, height>>,
                     <<"arcTo", R(0), height, R(0), RSub(height, r), r>>,
                     <<"lineTo", R(0), r>>,
                     <<"arcTo", R(0), R(0), r, R(0), r>>,
                     <<"closePath">> >>
             ELSE << <<"rect", R(0), R(0), width, height>> >>
        ELSE IF cfg.form = "circle"
        THEN << <<"arc", RDiv(width, R(2)), RDiv(height, R(2)),
                  RDiv(RMin(width, height), R(2))>> >>
        ELSE IF cfg.form = "custom"
        THEN IF Len(cfg.customPoints) > 0
             THEN IF Len(cfg.customPoints) >= 3 /\ finalized
                  THEN PolyLine(cfg.customPoints, R(0), R(0), R(1)) \o << <<"closePath">> >>
                  ELSE PolyLine(cfg.customPoints, R(0), R(0), R(1))
             ELSE <<>>
        ELSE <<>>

\* InteractivePreview2D draw effect: the shape path
drawShape(cfg, z, p) ==
    LET so == getScaleAndOffset(cfg, z, p)
        scale == so.scale
        offsetX == so.offsetX
        offsetY == so.offsetY
    IN  IF cfg.form = "circle"
        THEN << <<"arc", RAdd(offsetX, RDiv(RMul(cfg.width, scale), R(2))),
                         RAdd(offsetY, RDiv(RMul(cfg.height, scale), R(2))),
                         RDiv(RMul(cfg.width, scale), R(2))>> >>
        ELSE IF cfg.form = "custom" /\ Len(cfg.customPoints) >= 3
        THEN PolyLine(cfg.customPoints, offsetX, offsetY, scale) \o << <<"closePath">> >>
        ELSE << <<"rect", offsetX, offsetY, RMul(cfg.width, scale), RMul(cfg.height, scale)>> >>

\* createRoundedPolygon; the corner arcs of a positive radius are kept as one
\* command that carries the points and the radius
createRoundedPolygon(points, radius, offsetX, offsetY) ==
    IF Len(points) < 3 THEN <<>>
    ELSE IF RLeq(radius, R(0))
    THEN PolyLine(points, offsetX, offsetY, R(1)) \o << <<"closePath">> >>
    ELSE << <<"roundedCorners", PolyLine(points, offsetX, offsetY, R(1)), radius>>,
            <<"closePath">> >>

\* the plain rectangle of PlasticPart
SharpRectangle(width, height) ==
    LET w == RDiv(width, R(2))
        h == RDiv(height, R(2))
    IN  << <<"moveTo", RNeg(w), RNeg(h)>>,
           <<"lineTo", w, RNeg(h)>>,
           <<"lineTo", w, h>>,
           <<"lineTo", RNeg(w), h>>,
           <<"lineTo", RNeg(w), RNeg(h)>> >>

\* PlasticPart: the shape handed to ExtrudeGeometry
PlasticPart(cfg) ==
    LET r == cfg.cornerRadius
        w == RDiv(cfg.width, R(2))
        h == RDiv(cfg.height, R(2))
    IN  IF cfg.form = "circle"
        THEN << <<"absarc", R(0), R(0), RDiv(cfg.width, R(2))>> >>
        ELSE IF cfg.form = "custom"
        THEN IF Len(cfg.customPoints) >= 3
             THEN createRoundedPolygon(cfg.customPoints, r, RNeg(w), RNeg(h))
             ELSE SharpRectangle(cfg.width, cfg.height)
        ELSE IF RLt(R(0), r)
        THEN << <<"moveTo", RAdd(RNeg(w), r), RNeg(h)>>,
                <<"lineTo", RSub(w, r), RNeg(h)>>,
                <<"quadraticCurveTo", w, RNeg(h), w, RAdd(RNeg(h), r)>>,
                <<"lineTo", w, RSub(h, r)>>,
                <<"quadraticCurveTo", w, h, RSub(w, r), h>>,
                <<"lineTo", RAdd(RNeg(w), r), h>>,
                <<"quadraticCurveTo", RNeg(w), h, RNeg(w), RSub(h, r)>>,
                <<"lineTo", RNeg(w), RAdd(RNeg(h), r)>>,
                <<"quadraticCurveTo", RNeg(w), RNeg(h), RAdd(RNeg(w), r), RNeg(h)>> >>
        ELSE SharpRectangle(cfg.width, cfg.height)

\* what the three renderers show for a state of the store
Render(cfg, finalized, z, p) ==
    << [ config |-> cfg,
         canvas |-> drawPart(cfg, finalized),
         preview |-> drawShape(cfg, z, p),
         solid |-> PlasticPart(cfg) ] >>

\* values typed into the dimension and corner radius fields
ProfileSizes == { R(100), R(60), R(400) }
ProfileRadii == { R(0), R(20), R(60) }
ProfileForms == { "rectangle", "circle", "custom" }

\* the renderers run when the components mount
Mount ==
    /\ rendered = Null
    /\ rendered' = Render(config, customShapeFinalized, zoom, pan)
    /\ UNCHANGED <<storeVars, previewVars, steps, guarded, requestVars, drawerVars, syncVars>>

\* DimensionsPanel: updateDimensions(width, height), and the re-render
UpdateDimensions ==
    /\ rendered # Null
    /\ \E width \in ProfileSizes, height \in ProfileSizes :
          config' = updateDimensions(config, width, height)
    /\ rendered' = Render(config', customShapeFinalized, zoom, pan)
    /\ UNCHANGED <<customShapeFinalized, savedCustomShape, previewVars, steps, guarded,
                   requestVars, drawerVars, syncVars>>

\* DimensionsPanel: updateCornerRadius(cornerRadius), shown for a rectangle
UpdateCornerRadius ==
    /\ rendered # Null
    /\ config.form = "rectangle"
    /\ \E radius \in ProfileRadii : config' = updateCornerRadius(config, radius)
    /\ rendered' = Render(config', customShapeFinalized, zoom, pan)
    /\ UNCHANGED <<customShapeFinalized, savedCustomShape, previewVars, steps, guarded,
                   requestVars, drawerVars, syncVars>>

\* the form selector: updateForm(form), and the re-render
ProfileSelectForm ==
    /\ rendered # Null
    /\ \E form \in ProfileForms :
          LET st == updateForm(config, customShapeFinalized, savedCustomShape, form)
          IN  /\ config' = st.config
              /\ customShapeFinalized' = st.customShapeFinalized
              /\ savedCustomShape' = st.savedCustomShape
    /\ rendered' = Render(config', customShapeFinalized', zoom, pan)
    /\ UNCHANGED <<previewVars, steps, guarded, requestVars, drawerVars, syncVars>>

\* a click on the drawing canvas: addCustomPoint, and the re-render
ProfileAddPoint ==
    /\ rendered # Null
    /\ config.form = "custom" /\ ~customShapeFinalized
    /\ Len(config.customPoints) < MaxPoints
    /\ \E point \in PointChoices : config' = addCustomPoint(config, point)
    /\ rendered' = Render(config', customShapeFinalized, zoom, pan)
    /\ UNCHANGED <<customShapeFinalized, savedCustomShape, previewVars, steps, guarded,
                   requestVars, drawerVars, syncVars>>

\* Finish Shape: finalizeCustomShape, and the re-render
ProfileFinish ==
    /\ rendered # Null
    /\ config.form = "custom"
    /\ finishOffered(config, customShapeFinalized)
    /\ customShapeFinalized' = TRUE
    /\ rendered' = Render(config, TRUE, zoom, pan)
    /\ UNCHANGED <<config, savedCustomShape, previewVars, steps, guarded, requestVars, drawerVars, syncVars>>

NextProfile ==
    \/ Mount
    \/ UpdateDimensions
    \/ UpdateCornerRadius
    \/ ProfileSelectForm
    \/ ProfileAddPoint
    \/ ProfileFinish

SpecProfile == Init /\ [][NextProfile]_vars

-----------------------------------------------------------------------------
\* The coordinate transforms: part space to pixels as the renderers place a
\* point, and pixels back to part space as the click handlers read it, for
\* InteractivePreview2D (zoom and pan) and for Canvas (computeLayout).

\* size of the container of Canvas in CSS pixels
CssWidth == 960
CssHeight == 780

\* Canvas computeLayout
computeLayout(cfg) ==
    LET displayWidth == IF cfg.viewMode = "side" THEN cfg.thickness ELSE cfg.width
        displayHeight == IF cfg.viewMode = "top" THEN cfg.thickness ELSE cfg.height
        paddingLeft == 80
        paddingRight == 80
        paddingTop == 100
        paddingBottom == 80
        scaleX == RDiv(R(CssWidth - paddingLeft - paddingRight), displayWidth)
        scaleY == RDiv(R(CssHeight - paddingTop - paddingBottom), displayHeight)
        scale == RMul(RMin(scaleX, scaleY), Q(6, 10))
    IN  [ displayWidth |-> displayWidth,
          displayHeight |-> displayHeight,
          scale |-> scale,
          offsetX |-> RAdd(R(paddingLeft),
                           RDiv(RSub(R(CssWidth - paddingLeft - paddingRight),
                                     RMul(displayWidth, scale)), R(2))),
          offsetY |-> RAdd(R(paddingTop),
                           RDiv(RSub(R(CssHeight - paddingTop - paddingBottom),
                                     RMul(displayHeight, scale)), R(2))) ]

\* Canvas drawPart: ctx.translate(offsetX, offsetY); ctx.scale(scale, scale)
canvasPixel(point, layout) ==
    Point(RAdd(layout.offsetX, RMul(point.x, layout.scale)),
          RAdd(layout.offsetY, RMul(point.y, layout.scale)))

\* Canvas handleCanvasClick: partX = (x - offsetX) / scale
canvasPartCoordinates(x, y, cfg) ==
    LET layout == computeLayout(cfg)
    IN  Point(RDiv(RSub(x, layout.offsetX), layout.scale),
              RDiv(RSub(y, layout.offsetY), layout.scale))

\* a point is placed by the renderers and read back through the click handlers
Transformed(point, cfg, z, p) ==
    LET pixel == holeCentre(point, getScaleAndOffset(cfg, z, p))
        cpixel == canvasPixel(point, computeLayout(cfg))
    IN  << [ point |-> point,
             pixel |-> pixel,
             back |-> getPartCoordinates(pixel.x, pixel.y, cfg, z, p),
             canvasPixel |-> cpixel,
             canvasBack |-> canvasPartCoordinates(cpixel.x, cpixel.y, cfg) ] >>

\* part-space points within the bounds of the part: the corners, the centre,
\* a third of the way and a tenth of a millimetre from the far edges
PartPoints(cfg) ==
    { Point(R(0), R(0)),
      Point(cfg.width, cfg.height),
      Point(RDiv(cfg.width, R(2)), RDiv(cfg.height, R(2))),
      Point(RDiv(cfg.width, R(3)), RDiv(cfg.height, R(3))),
      Point(RSub(cfg.width, Q(1, 10)), Q(1, 10)) }

\* zoom and pan values the view can be at
TransformZooms == { Q(1, 2), R(1), R(5) }
TransformPans == { Point(R(0), R(0)), Point(R(36), R(27)) }

InitTransform ==
    /\ config = defaultConfig
    /\ customShapeFinalized = FALSE
    /\ savedCustomShape = Null
    /\ hoveredHole = Null
    /\ draggingHole = Null
    /\ dragOffset = [x |-> R(0), y |-> R(0)]
    /\ zoom \in TransformZooms
    /\ pan \in TransformPans
    /\ isPanning = FALSE
    /\ panStart = [x |-> R(0), y |-> R(0)]
    /\ editingHole = Null
    /\ now = 0
    /\ ptr = [x |-> 678, y |-> 305]
    /\ pressed = -1
    /\ moved = FALSE
    /\ pendingClick = "none"
    /\ steps = 0
    /\ guarded = TRUE
    /\ isOrdering = FALSE
    /\ isGeneratingCAD = FALSE
    /\ orderStatus = ""
    /\ notification = Null
    /\ noteSeq = 0
    /\ timers = {}
    /\ orders = <<>>
    /\ downloads = <<>>
    /\ savedFiles = {}
    /\ lastCad = Null
    /\ lastOrder = Null
    /\ rendered = Null
    /\ selectedIndex = Null
    /\ draggingIndex = Null
    /\ hoveredIndex = Null
    /\ formValues = InitialFormValues
    /\ editorTimeout = TRUE
    /\ panelState = InitialPanelState
    /\ panelTimers = PanelEffects
    /\ storeWrites = 0
    /\ edits = 0

\* a point of the part is drawn and its pixel is read back
RoundTrip ==
    /\ \E point \in PartPoints(config) : rendered' = Transformed(point, config, zoom, pan)
    /\ UNCHANGED <<storeVars, previewVars, steps, guarded, requestVars, drawerVars, syncVars>>

\* the view or the part changes; what was drawn before is gone
NextTransform ==
    \/ RoundTrip
    \/ handleWheel(MaxZoomTermTransform) /\ rendered' = Null
                                         /\ UNCHANGED <<steps, guarded, requestVars, drawerVars, syncVars>>
    \/ handleZoomIn(MaxZoomTermTransform) /\ rendered' = Null
                                          /\ UNCHANGED <<steps, guarded, requestVars, drawerVars, syncVars>>
    \/ handleZoomOut(MaxZoomTermTransform) /\ rendered' = Null
                                           /\ UNCHANGED <<steps, guarded, requestVars, drawerVars, syncVars>>
    \/ handleResetView /\ rendered' = Null /\ UNCHANGED <<steps, guarded, requestVars, drawerVars, syncVars>>
    \/ handlePanButton /\ rendered' = Null /\ UNCHANGED <<steps, guarded, requestVars, drawerVars, syncVars>>
    \/ debounceSync /\ rendered' = Null /\ UNCHANGED <<steps, guarded, requestVars, drawerVars, syncVars>>

SpecTransform == InitTransform /\ [][NextTransform]_vars

-----------------------------------------------------------------------------
\* Drawing a custom polygon: CustomShapeDrawer (points, width, height and
\* isFinalized from the store, its callbacks the store's point operations) and
\* the custom-drawing branch of Canvas handleCanvasClick.

\* <canvas width={600} height={400}>, shown at twice that size
DrawerWidth == 600
DrawerHeight == 400
DrawerRect == [left |-> 0, top |-> 0, width |-> 1200, height |-> 800]
drawerPadding == 40
clickRadius == 10

drawerCanvasCoordinates(e) ==
    LET scaleX == Q(DrawerWidth, DrawerRect.width)
        scaleY == Q(DrawerHeight, DrawerRect.height)
    IN  Point(RMul(R(e.x - DrawerRect.left), scaleX), RMul(R(e.y - DrawerRect.top), scaleY))

\* scale and offsets as computed in getPartCoordinates and findPointAtPosition
drawerScaleAndOffset(cfg) ==
    LET scaleX == RDiv(R(DrawerWidth - drawerPadding * 2), cfg.width)
        scaleY == RDiv(R(DrawerHeight - drawerPadding * 2), cfg.height)
        scale == RMin(scaleX, scaleY)
    IN  [ scale |-> scale,
          offsetX |-> RDiv(RSub(R(DrawerWidth), RMul(cfg.width, scale)), R(2)),
          offsetY |-> RDiv(RSub(R(DrawerHeight), RMul(cfg.height, scale)), R(2)) ]

drawerPartCoordinates(canvasX, canvasY, cfg) ==
    LET sd == drawerScaleAndOffset(cfg)
    IN  Point(RDiv(RSub(canvasX, sd.offsetX), sd.scale),
              RDiv(RSub(canvasY, sd.offsetY), sd.scale))

\* the point is within clickRadius pixels of the canvas position
pointHit(point, canvasX, canvasY, cfg) ==
    LET sd == drawerScaleAndOffset(cfg)
        px == RAdd(sd.offsetX, RMul(point.x, sd.scale))
        py == RAdd(sd.offsetY, RMul(point.y, sd.scale))
    IN  DistanceLeq(RSub(px, canvasX), RSub(py, canvasY), R(clickRadius))

\* <<i>> for the index i (from 1) of the first point that is hit; <<>> for null
findPointAtPosition(canvasX, canvasY, cfg) ==
    LET hits == {i \in 1..Len(cfg.customPoints) :
                    pointHit(cfg.customPoints[i], canvasX, canvasY, cfg)}
    IN  IF hits = {} THEN Null ELSE <<CHOOSE i \in hits : \A j \in hits : i <= j>>

\* pointer positions over the drawer, in client coordinates
DrawerPointers ==
    { Point(400, 200),      \* part (75, 75) of a 400 x 400 part
      Point(600, 400),      \* part (200, 200)
      Point(610, 410),      \* about 7 canvas px from the previous one
      Point(1190, 790) }    \* outside the part

\* click positions on Canvas, in CSS pixels from its top left corner
CanvasPointers == { Point(480, 400), Point(400, 300), Point(20, 20) }

drawerFree == config.form = "custom" /\ ~customShapeFinalized

\* the form selector: updateForm('custom'); the drawer is shown
DrawerSelectCustom ==
    /\ config.form # "custom"
    /\ LET st == updateForm(config, customShapeFinalized, savedCustomShape, "custom")
       IN  /\ config' = st.config
           /\ customShapeFinalized' = st.customShapeFinalized
           /\ savedCustomShape' = st.savedCustomShape
    /\ UNCHANGED <<previewVars, steps, guarded, requestVars, rendered, drawerVars, syncVars>>

\* CustomShapeDrawer onMouseMove: the pointer moves to e
drawerMouseMove ==
    /\ drawerFree /\ pendingClick = "none"
    /\ \E e \in DrawerPointers \ {ptr} :
          LET coords == drawerCanvasCoordinates(e)
              partCoords == drawerPartCoordinates(coords.x, coords.y, config)
              clampedX == RMax(R(0), RMin(config.width, partCoords.x))
              clampedY == RMax(R(0), RMin(config.height, partCoords.y))
          IN  /\ ptr' = e
              /\ hoveredIndex' = findPointAtPosition(coords.x, coords.y, config)
              /\ IF draggingIndex # Null
                 THEN config' = updateCustomPoint(config, draggingIndex[1],
                                                  Point(clampedX, clampedY))
                 ELSE UNCHANGED config
    /\ UNCHANGED <<customShapeFinalized, savedCustomShape, viewVars, gestureVars, editingHole,
                   now, pressed, moved, pendingClick, steps, guarded, requestVars, syncVars, rendered,
                   selectedIndex, draggingIndex>>

\* CustomShapeDrawer onMouseDown at the pointer
drawerMouseDown ==
    /\ drawerFree /\ pendingClick = "none"
    /\ pressed = -1
    /\ pressed' = 0
    /\ LET coords == drawerCanvasCoordinates(ptr)
           pointIndex == findPointAtPosition(coords.x, coords.y, config)
       IN  IF pointIndex # Null
           THEN draggingIndex' = pointIndex /\ selectedIndex' = pointIndex
           ELSE UNCHANGED <<draggingIndex, selectedIndex>>
    /\ UNCHANGED <<storeVars, viewVars, gestureVars, editingHole, now, ptr, moved,
                   pendingClick, steps, guarded, requestVars, syncVars, rendered, hoveredIndex>>

\* CustomShapeDrawer onMouseUp; the browser then delivers the click
drawerMouseUp ==
    /\ drawerFree
    /\ pressed = 0
    /\ pressed' = -1
    /\ draggingIndex' = Null
    /\ pendingClick' = "plain"
    /\ UNCHANGED <<storeVars, viewVars, gestureVars, editingHole, now, ptr, moved,
                   steps, guarded, requestVars, syncVars, rendered, selectedIndex, hoveredIndex>>

\* onMouseLeave={handleMouseUp}; the button is released outside the canvas
drawerMouseLeave ==
    /\ drawerFree /\ pendingClick = "none"
    /\ pressed' = -1
    /\ draggingIndex' = Null
    /\ UNCHANGED <<storeVars, viewVars, gestureVars, editingHole, now, ptr, moved,
                   pendingClick, steps, guarded, requestVars, syncVars, rendered, selectedIndex,
                   hoveredIndex>>

\* handleClick of CustomShapeDrawer for a click at canvas coords
drawerClickAt(coords) ==
    LET pointIndex == findPointAtPosition(coords.x, coords.y, config)
        partCoords == drawerPartCoordinates(coords.x, coords.y, config)
    IN  IF pointIndex # Null
        THEN selectedIndex' = pointIndex /\ UNCHANGED config
        ELSE IF /\ RLeq(R(0), partCoords.x) /\ RLeq(partCoords.x, config.width)
                /\ RLeq(R(0), partCoords.y) /\ RLeq(partCoords.y, config.height)
        THEN /\ Len(config.customPoints) < MaxPoints
             /\ config' = addCustomPoint(config, partCoords)
             /\ selectedIndex' = Null
        ELSE UNCHANGED <<config, selectedIndex>>

\* CustomShapeDrawer onClick at the pointer
drawerClick ==
    /\ drawerFree
    /\ pendingClick = "plain"
    /\ pendingClick' = "none"
    /\ drawerClickAt(drawerCanvasCoordinates(ptr))
    /\ UNCHANGED <<customShapeFinalized, savedCustomShape, viewVars, gestureVars, editingHole,
                   now, ptr, pressed, moved, steps, guarded, requestVars, syncVars, rendered,
                   draggingIndex, hoveredIndex>>

\* CustomShapeDrawer onDoubleClick at the pointer
drawerDoubleClick ==
    /\ drawerFree /\ pendingClick = "none" /\ pressed = -1
    /\ LET coords == drawerCanvasCoordinates(ptr)
           pointIndex == findPointAtPosition(coords.x, coords.y, config)
       IN  IF pointIndex # Null
           THEN /\ config' = removeCustomPoint(config, pointIndex[1])
                /\ selectedIndex' = Null
           ELSE UNCHANGED <<config, selectedIndex>>
    /\ UNCHANGED <<customShapeFinalized, savedCustomShape, viewVars, gestureVars, editingHole,
                   now, mouseVars, steps, guarded, requestVars, syncVars, rendered, draggingIndex,
                   hoveredIndex>>

\* "Delete Point #n": onRemovePoint(selectedIndex); setSelectedIndex(null)
drawerDeletePoint ==
    /\ drawerFree /\ pendingClick = "none" /\ pressed = -1
    /\ selectedIndex # Null
    /\ config' = removeCustomPoint(config, selectedIndex[1])
    /\ selectedIndex' = Null
    /\ UNCHANGED <<customShapeFinalized, savedCustomShape, previewVars, steps, guarded,
                   requestVars, syncVars, rendered, draggingIndex, hoveredIndex>>

\* "Undo": onRemoveLastPoint
drawerUndo ==
    /\ drawerFree /\ pendingClick = "none" /\ pressed = -1
    /\ Len(config.customPoints) # 0
    /\ config' = removeLastCustomPoint(config)
    /\ UNCHANGED <<customShapeFinalized, savedCustomShape, previewVars, steps, guarded,
                   requestVars, rendered, drawerVars, syncVars>>

\* "Clear": onClearPoints
drawerClear ==
    /\ drawerFree /\ pendingClick = "none" /\ pressed = -1
    /\ Len(config.customPoints) # 0
    /\ config' = [config EXCEPT !.customPoints = <<>>]
    /\ customShapeFinalized' = FALSE
    /\ UNCHANGED <<savedCustomShape, previewVars, steps, guarded, requestVars, rendered,
                   drawerVars, syncVars>>

\* "Apply Shape": finalizeCustomShape; the effect on isFinalized clears the
\* dragging, hovered and selected index
drawerApplyShape ==
    /\ drawerFree /\ pendingClick = "none" /\ pressed = -1
    /\ Len(config.customPoints) >= 3
    /\ customShapeFinalized' = TRUE
    /\ selectedIndex' = Null /\ draggingIndex' = Null /\ hoveredIndex' = Null
    /\ UNCHANGED <<config, savedCustomShape, previewVars, steps, guarded, requestVars, syncVars,
                   rendered>>

\* "Edit Shape": editCustomShape
drawerEditShape ==
    /\ config.form = "custom" /\ customShapeFinalized
    /\ customShapeFinalized' = FALSE
    /\ UNCHANGED <<config, savedCustomShape, previewVars, steps, guarded, requestVars,
                   rendered, drawerVars, syncVars>>

\* Canvas handleCanvasClick while a custom shape is drawn: a click at e
canvasCustomClick ==
    /\ drawerFree /\ pendingClick = "none" /\ pressed = -1
    /\ \E e \in CanvasPointers :
          LET layout == computeLayout(config)
              x == R(e.x)
              y == R(e.y)
              partCoords == canvasPartCoordinates(x, y, config)
          IN  /\ rendered' = <<[click |-> partCoords]>>
              /\ IF /\ RLeq(layout.offsetX, x)
                    /\ RLeq(x, RAdd(layout.offsetX, RMul(layout.displayWidth, layout.scale)))
                    /\ RLeq(layout.offsetY, y)
                    /\ RLeq(y, RAdd(layout.offsetY, RMul(layout.displayHeight, layout.scale)))
                 THEN /\ Len(config.customPoints) < MaxPoints
                      /\ config' = addCustomPoint(config, partCoords)
                 ELSE UNCHANGED config
    /\ UNCHANGED <<customShapeFinalized, savedCustomShape, previewVars, steps, guarded,
                   requestVars, drawerVars, syncVars>>

NextDrawer ==
    \/ DrawerSelectCustom
    \/ drawerMouseMove
    \/ drawerMouseDown
    \/ drawerMouseUp
    \/ drawerMouseLeave
    \/ drawerClick
    \/ drawerDoubleClick
    \/ drawerDeletePoint
    \/ drawerUndo
    \/ drawerClear
    \/ drawerApplyShape
    \/ drawerEditShape
    \/ canvasCustomClick

SpecDrawer == Init /\ [][NextDrawer]_vars

-----------------------------------------------------------------------------
\* The pointer events of InteractivePreview2D with more than one button: the
\* browser delivers a mousedown for every button that goes down, also while
\* another button is held.

\* onMouseDown for a further button, the first one still held
handleMouseDownHeld ==
    /\ canvasFree
    /\ pressed # -1
    /\ \E button \in Buttons \ {pressed}, shiftKey \in BOOLEAN :
          IF button = 1 \/ (button = 0 /\ shiftKey)
          THEN /\ isPanning' = TRUE
               /\ panStart' = Point(RSub(R(ptr.x), pan.x), RSub(R(ptr.y), pan.y))
               /\ UNCHANGED <<draggingHole, dragOffset>>
          ELSE LET coords == getCanvasCoordinates(ptr)
                   hole == findHoleAtPosition(coords.x, coords.y, config, zoom, pan)
               IN  IF hole # <<>>
                   THEN LET sd == getScaleAndOffset(config, zoom, pan)
                            c == holeCentre(hole[1], sd)
                        IN  /\ draggingHole' = hole[1].id
                            /\ dragOffset' = Point(RSub(coords.x, c.x), RSub(coords.y, c.y))
                            /\ UNCHANGED <<isPanning, panStart>>
                   ELSE UNCHANGED <<draggingHole, dragOffset, isPanning, panStart>>
    /\ UNCHANGED <<storeVars, viewVars, hoveredHole, editingHole, now, mouseVars>>

NextButtons ==
    \/ Step /\ handleAddHole
    \/ Step /\ handleMouseDown
    \/ Step /\ handleMouseDownHeld
    \/ Step /\ handleMouseMove
    \/ Step /\ handleMouseUp
    \/ Step /\ handleMouseLeave
    \/ Step /\ handleClick
    \/ Step /\ handleEditorClose

SpecButtons == Init /\ [][NextButtons]_vars

-----------------------------------------------------------------------------
\* The debounced synchronisation of typed values into the store: the effect
\* of ParametricEditor on watch() and the three effects of DimensionsPanel on
\* its local state.  The two components belong to different builds of the
\* page, each with its own store; a write of one does not render the other.

updateThickness(cfg, thickness) == [cfg EXCEPT !.thickness = thickness]

updateMaterial(cfg, material) == [cfg EXCEPT !.material = material]

\* the dimension form with its number fields cleared
EmptyForm == [width |-> R(0), height |-> R(0), thickness |-> R(0), material |-> ""]

SyncFormValues == FormValues \cup {EmptyForm}

\* values typed into the fields of DimensionsPanel
PanelSizes == { R(400), R(100) }
PanelThicknesses == { R(16), R(5) }
PanelRadii == { R(0), R(20) }

\* the set calls the timeout callback of ParametricEditor makes
editorSyncCalls(values) ==
    (IF values.width # R(0) /\ values.height # R(0) THEN 1 ELSE 0)
    + (IF values.thickness # R(0) THEN 1 ELSE 0)
    + (IF values.material # "" THEN 1 ELSE 0)

\* the store after the timeout callback of ParametricEditor
editorSync(cfg, values) ==
    LET c1 == IF values.width # R(0) /\ values.height # R(0)
              THEN updateDimensions(cfg, values.width, values.height) ELSE cfg
        c2 == IF values.thickness # R(0) THEN updateThickness(c1, values.thickness) ELSE c1
    IN  IF values.material # "" THEN updateMaterial(c2, values.material) ELSE c2

\* the user types into the dimension form: the component renders, watch()
\* gives new values, the effect clears its timeout and sets a new one
editorEdit ==
    /\ edits < MaxEdits
    /\ edits' = edits + 1
    /\ \E values \in SyncFormValues \ {formValues} : formValues' = values
    /\ editorTimeout' = TRUE
    /\ UNCHANGED <<panelState, panelTimers, storeWrites>>
    /\ UNCHANGED <<storeVars, previewVars, steps, guarded, rendered, drawerVars,
                   requestVars>>

\* the timeout of ParametricEditor fires.  Every set call replaces the state
\* of the store, the component (subscribed with useConfigStore()) renders,
\* watch() returns a new object on every call, so the dependency of the
\* effect has changed and the effect sets a new timeout.
editorSyncFires ==
    /\ editorTimeout
    /\ config' = editorSync(config, formValues)
    /\ storeWrites' = (storeWrites + editorSyncCalls(formValues)) % MaxWrites
    /\ editorTimeout' = (editorSyncCalls(formValues) > 0)
    /\ UNCHANGED <<formValues, panelState, panelTimers, edits>>
    /\ UNCHANGED <<customShapeFinalized, savedCustomShape, previewVars, steps, guarded,
                   rendered, drawerVars, requestVars>>

\* the user types into a field of DimensionsPanel: the local state changes
\* and the effect that depends on it sets its timeout
panelEdit ==
    /\ edits < MaxEdits
    /\ edits' = edits + 1
    /\ \/ \E width \in PanelSizes \ {panelState.width} :
             /\ panelState' = [panelState EXCEPT !.width = width]
             /\ panelTimers' = panelTimers \cup {"dimensions"}
       \/ \E thickness \in PanelThicknesses \ {panelState.thickness} :
             /\ panelState' = [panelState EXCEPT !.thickness = thickness]
             /\ panelTimers' = panelTimers \cup {"thickness"}
       \/ \E cornerRadius \in PanelRadii \ {panelState.cornerRadius} :
             /\ panelState' = [panelState EXCEPT !.cornerRadius = cornerRadius]
             /\ panelTimers' = panelTimers \cup {"cornerRadius"}
    /\ UNCHANGED <<formValues, editorTimeout, storeWrites>>
    /\ UNCHANGED <<storeVars, previewVars, steps, guarded, rendered, drawerVars,
                   requestVars>>

\* a timeout of DimensionsPanel fires: one set call; the component renders,
\* its local state is as before and no effect runs
panelSyncFires ==
    /\ \E effect \in panelTimers :
          /\ panelTimers' = panelTimers \ {effect}
          /\ config' = IF effect = "dimensions"
                       THEN updateDimensions(config, panelState.width, panelState.height)
                       ELSE IF effect = "thickness"
                       THEN updateThickness(config, panelState.thickness)
                       ELSE updateCornerRadius(config, panelState.cornerRadius)
    /\ storeWrites' = (storeWrites + 1) % MaxWrites
    /\ UNCHANGED <<formValues, editorTimeout, panelState, edits>>
    /\ UNCHANGED <<customShapeFinalized, savedCustomShape, previewVars, steps, guarded,
                   rendered, drawerVars, requestVars>>

NextSync ==
    \/ editorEdit
    \/ editorSyncFires
    \/ panelEdit
    \/ panelSyncFires

SpecSync == Init /\ [][NextSync]_vars

\* the browser runs every timeout that is not cleared
SpecSyncLive == SpecSync /\ WF_vars(editorSyncFires) /\ WF_vars(panelSyncFires)

-----------------------------------------------------------------------------
(* Properties                                                              *)

HoleInBounds(h, cfg) ==
    LET radius == RDiv(h.diameter, R(2))
    IN  /\ RLeq(radius, h.x) /\ RLeq(h.x, RSub(cfg.width, radius))
        /\ RLeq(radius, h.y) /\ RLeq(h.y, RSub(cfg.height, radius))

AllHolesInBounds(cfg) ==
    \A i \in 1..Len(cfg.holes) : HoleInBounds(cfg.holes[i], cfg)

\* a pointer move that drags a hole
DragMove == handleMouseMove /\ ~isPanning /\ draggingHole # Null

\* C1: after every pointer move that drags a hole (with the rounding of
\* handleHoleDrag) and after every Save of the hole editor, every hole lies
\* within the part: diameter/2 <= x <= width - diameter/2 and
\* diameter/2 <= y <= height - diameter/2.
C1_HolesInBoundsAfterDragOrSave ==
    [][(DragMove \/ handleSave) => AllHolesInBounds(config')]_vars

\* C2: the ids of the holes of config.holes are pairwise distinct in every
\* reachable state, also when two holes are added at the same Date.now().
C2_HoleIdsDistinct ==
    \A i, j \in 1..Len(config.holes) :
        i # j => config.holes[i].id # config.holes[j].id

\* C3: every sequence of wheel events, zoom-in and zoom-out presses and
\* reset-view actions, from zoom = 1, keeps 0.5 <= zoom <= 5.
C3_ZoomWithinLimits == RLeq(Q(1, 2), zoom) /\ RLeq(zoom, R(5))

\* repeated zoom-in has driven zoom to the upper limit
C3_ZoomAtUpperLimit == zoom = R(5)

\* the part-space position under the pointer
PointerPart ==
    LET coords == getCanvasCoordinates(ptr)
    IN  getPartCoordinates(coords.x, coords.y, config, zoom, pan)

\* the pointer is within the tolerance radius of hole h
PointerWithin(h) ==
    LET coords == getCanvasCoordinates(ptr)
        sd == getScaleAndOffset(config, zoom, pan)
    IN  DistanceLeq(RSub(coords.x, RAdd(sd.offsetX, RMul(h.x, sd.scale))),
                    RSub(coords.y, RAdd(sd.offsetY, RMul(h.y, sd.scale))),
                    RAdd(RMul(RDiv(h.diameter, R(2)), sd.scale), R(5)))

PointerHitsHole == \E i \in 1..Len(config.holes) : PointerWithin(config.holes[i])

PointerInPart ==
    /\ RLeq(R(0), PointerPart.x) /\ RLeq(PointerPart.x, config.width)
    /\ RLeq(R(0), PointerPart.y) /\ RLeq(PointerPart.y, config.height)

\* the rectangle of the end-to-end scenario, whatever its holes
ScenarioPart(cfg) ==
    /\ cfg.form = "rectangle"
    /\ cfg.width = R(440) /\ cfg.height = R(600)
    /\ cfg.thickness = R(5) /\ cfg.cornerRadius = R(0)

IsHoleAt(h, x, y, diameter) == h.x = x /\ h.y = y /\ h.diameter = diameter

\* a click delivered at part-space (100, 100) of the scenario's rectangle
ScenarioClick ==
    /\ handleClick
    /\ ScenarioPart(config)
    /\ PointerPart = Point(R(100), R(100))

ClickRouted(x, y) ==
    IF PointerHitsHole
    THEN /\ \E i \in 1..Len(config.holes) :
               PointerWithin(config.holes[i]) /\ editingHole' = <<config.holes[i]>>
         /\ config' = config
    ELSE IF PointerInPart
    THEN /\ Len(config'.holes) = Len(config.holes) + 1
         /\ SubSeq(config'.holes, 1, Len(config.holes)) = config.holes
         /\ IsHoleAt(config'.holes[Len(config'.holes)], x, y, R(8))
         /\ [config' EXCEPT !.holes = config.holes] = config
         /\ editingHole' = editingHole
    ELSE config' = config /\ editingHole' = editingHole

\* C5 (as stated): a click that hits a hole invokes the hole-click callback
\* and adds nothing; otherwise a click within [0, width] x [0, height]
\* appends exactly one hole of diameter 8 at that position; otherwise
\* PartConfig is unchanged.
C5_ClickAddsHoleAtPosition ==
    [][handleClick => ClickRouted(PointerPart.x, PointerPart.y)]_vars

\* C5 (amended): as above, with the new hole at the position rounded to the
\* nearest 0.1 mm on each axis.
C5_ClickAddsHoleAtRoundedPosition ==
    [][handleClick => ClickRouted(Round10(PointerPart.x), Round10(PointerPart.y))]_vars

\* a click has added a hole whose position is the rounded pointer position
\* and not the pointer position itself
C5_HoleAddedOffGrid ==
    /\ pendingClick = "none" /\ editingHole = Null
    /\ \E i \in 1..Len(config.holes) :
          /\ IsHoleAt(config.holes[i], Round10(PointerPart.x), Round10(PointerPart.y), R(8))
          /\ Round10(PointerPart.y) # PointerPart.y

\* C6: the click delivered after a press-move-release gesture that dragged a
\* hole neither opens the hole editor nor adds a hole.
C6_ClickAfterDragDoesNothing ==
    [][(handleClick /\ pendingClick = "drag") =>
          (editingHole' = editingHole /\ config' = config)]_vars

\* the steps of a pan-drag gesture and the click delivered after it
PanGestureStep ==
    \/ handleMouseDown /\ isPanning'
    \/ handleMouseMove /\ isPanning
    \/ handleMouseUp /\ isPanning
    \/ handleClick /\ pendingClick = "pan"

ViewOperation ==
    \/ handleWheel(MaxZoomTermDeep)
    \/ handleZoomIn(MaxZoomTermDeep)
    \/ handleZoomOut(MaxZoomTermDeep)
    \/ handlePanButton
    \/ handleResetView
    \/ PanGestureStep

\* C7: no view operation changes PartConfig: wheel zoom, the zoom and pan
\* buttons, reset view, and every step of a pan-drag gesture, the click
\* delivered after its release included, leave config as it was.
C7_ViewOperationsKeepConfig ==
    [][ViewOperation => config' = config]_vars

\* a 260 x 185 part (scale 2) with one hole of diameter 10 at (50, 50),
\* its centre projected to (140, 140)
ExamplePart ==
    [defaultConfig EXCEPT !.width = R(260), !.height = R(185),
                          !.holes = <<Hole(HoleId(0, ""), R(50), R(50), R(10))>>]

\* the example's hole is found 15 px from its centre and not found beyond
ExampleHitAndMiss ==
    /\ getScaleAndOffset(ExamplePart, R(1), Point(R(0), R(0))).scale = R(2)
    /\ findHoleAtPosition(R(152), R(149), ExamplePart, R(1), Point(R(0), R(0)))
          = <<ExamplePart.holes[1]>>
    /\ findHoleAtPosition(R(153), R(149), ExamplePart, R(1), Point(R(0), R(0))) = <<>>

\* C8: findHoleAtPosition returns the first hole, in the order of
\* config.holes, whose projected centre is within (diameter/2) * scale + 5
\* pixels of the position, and null when there is none; a hole of diameter 10
\* at scale 2 is hit at 15 px and missed beyond.
C8_FirstHoleWithinTolerance ==
    /\ LET coords == getCanvasCoordinates(ptr)
           found == findHoleAtPosition(coords.x, coords.y, config, zoom, pan)
           within == {i \in 1..Len(config.holes) : PointerWithin(config.holes[i])}
       IN  IF within = {} THEN found = <<>>
           ELSE \E i \in within :
                   /\ \A j \in within : i <= j
                   /\ found = <<config.holes[i]>>
    /\ ExampleHitAndMiss

\* the pointer hovers exactly 15 px from the centre of a hole of diameter 10
\* drawn at scale 2, and the hit test has found it
C8_HoveredAtFifteenPixels ==
    /\ getScaleAndOffset(config, zoom, pan).scale = R(2)
    /\ Len(config.holes) = 1
    /\ IsHoleAt(config.holes[1], R(50), R(50), R(10))
    /\ ptr = Point(456, 447)
    /\ hoveredHole = config.holes[1].id

\* two different holes are under the pointer and the first one is hovered
C8_FirstOfTwoHovered ==
    /\ Len(config.holes) = 2
    /\ config.holes[1] # config.holes[2]
    /\ PointerWithin(config.holes[1]) /\ PointerWithin(config.holes[2])
    /\ hoveredHole = config.holes[1].id
    /\ hoveredHole # config.holes[2].id

FinalizedHasThreePoints ==
    customShapeFinalized => Len(config.customPoints) >= 3

\* C9 (as stated): in every state reachable through the store operations,
\* customShapeFinalized = true implies that customPoints has at least 3
\* points.
C9_FinalizedImpliesThreePoints == FinalizedHasThreePoints

\* C9 (amended): the same, in every state reached by store operations called
\* as the components call them: finalizeCustomShape only for an unfinalized
\* shape of at least 3 points, and removeCustomPoint, removeLastCustomPoint
\* and setCustomPoints only while the shape is not finalized.
C9_FinalizedImpliesThreePointsWhenGuarded ==
    guarded => FinalizedHasThreePoints

\* a shape of 3 points has been finalized by guarded calls only
C9_FinalizedByGuardedCalls ==
    /\ guarded
    /\ config.form = "custom"
    /\ customShapeFinalized
    /\ Len(config.customPoints) = 3

\* customPoints and customShapeFinalized after updateForm(form) followed by
\* updateForm('custom')
AwayAndBack(form) ==
    LET away == updateForm(config, customShapeFinalized, savedCustomShape, form)
        back == updateForm(away.config, away.customShapeFinalized,
                           away.savedCustomShape, "custom")
    IN  [points |-> back.config.customPoints, finalized |-> back.customShapeFinalized]

OtherForms == Forms \ {"custom", "none"}

\* C10 (as stated): in every reachable state with form = 'custom',
\* updateForm(f) with f # 'custom' followed by updateForm('custom') yields
\* the customPoints and customShapeFinalized of before the first call, also
\* for a shape of zero points.
C10_AwayAndBackRestores ==
    config.form = "custom" =>
        \A form \in OtherForms :
            AwayAndBack(form) =
                [points |-> config.customPoints, finalized |-> customShapeFinalized]

\* C10 (amended): the same for a shape of at least one point; with zero
\* points nothing is saved on the way out, and the way back yields the pair
\* saved last, or no points and not finalized when none was ever saved.
C10_AwayAndBackRestoresLastSaved ==
    config.form = "custom" =>
        \A form \in OtherForms :
            AwayAndBack(form) =
                IF Len(config.customPoints) > 0
                THEN [points |-> config.customPoints, finalized |-> customShapeFinalized]
                ELSE IF savedCustomShape # Null THEN savedCustomShape[1]
                ELSE [points |-> <<>>, finalized |-> FALSE]

\* a finalized shape that has been saved on the way out and restored on the
\* way back
C10_FinalizedShapeRestored ==
    /\ config.form = "custom"
    /\ customShapeFinalized
    /\ Len(config.customPoints) = 3
    /\ savedCustomShape =
          <<[points |-> config.customPoints, finalized |-> customShapeFinalized]>>


\* the generate request was not answered with 2xx, or a network call threw
CadRequestFailed(net) ==
    net.generate # "ok" \/ net.json = "throws" \/ net.files = "throws"

\* C11: generateCADFiles never rejects, and whenever the generate request
\* returns a non-2xx response or one of its network calls throws it resolves
\* with the locally generated files, whose metadata carries the width, height,
\* thickness, material and number of holes of the config it was called with.
C11_GenerateFallsBackToLocalFiles ==
    lastCad # Null =>
        LET call == lastCad[1]
        IN  /\ call.result.state = "resolved"
            /\ CadRequestFailed(call.net) =>
                  /\ call.result.source = "local"
                  /\ call.result.metadata.width = call.config.width
                  /\ call.result.metadata.height = call.config.height
                  /\ call.result.metadata.thickness = call.config.thickness
                  /\ call.result.metadata.material = call.config.material
                  /\ call.result.metadata.holeCount = Len(call.config.holes)

\* a call for a part with one hole whose generate request was answered non-2xx
\* has resolved with local files, after the part got a second size
C11_FallbackAfterRejectedRequest ==
    /\ lastCad # Null
    /\ lastCad[1].net.generate = "non2xx"
    /\ lastCad[1].result.state = "resolved"
    /\ lastCad[1].result.source = "local"
    /\ Len(lastCad[1].config.holes) = 1
    /\ lastCad[1].config.width # config.width

\* the order request of a Place Order action was not answered with 2xx or threw
OrderRequestFailed(net) == net.order \in {"non2xx", "throws"}

\* the step at which submitOrder settles for the Place Order action in flight
OrderSettles ==
    /\ orders # <<>>
    /\ orders[1].pc = "submitOrder"
    /\ orders' # orders

\* C12: if the order-submission request fails (non-2xx response or network
\* error), the Place Order action ends with an error notification, and with
\* neither a success notification nor a reported order id.
C12_FailedOrderRequestEndsInError ==
    [][ OrderSettles /\ OrderRequestFailed(lastOrder'[1].net) =>
            /\ notification' # Null
            /\ notification'[1].type = "error"
            /\ lastOrder'[1].result.orderId = ""
            /\ orders' = <<>> ]_vars

\* C13: under every interleaving of Download CAD and Place Order activations
\* with request completions at most one CAD generation started by Download CAD
\* and at most one order submission started by Place Order is in flight, and
\* isGeneratingCAD and isOrdering are false once the request has completed.
C13_OneRequestInFlightPerAction ==
    /\ Len(downloads) <= 1
    /\ Len(orders) <= 1
    /\ downloads = <<>> => ~isGeneratingCAD
    /\ orders = <<>> => ~isOrdering

\* both actions were activated, as often as the bound allows, their requests
\* have completed, one of them after a failed validation, and the flags are off
C13_BothActionsCompleted ==
    /\ noteSeq = MaxNotes
    /\ lastOrder # Null
    /\ lastCad # Null
    /\ lastCad[1].net.validation = "invalid"
    /\ orders = <<>> /\ downloads = <<>>
    /\ ~isOrdering /\ ~isGeneratingCAD

\* an error notification is shown
ErrorShown == notification # Null /\ notification[1].type = "error"

\* C14: every error notification raised by Download CAD or Place Order is
\* eventually cleared by an auto-dismiss timer, without any user action.
C14_ErrorNotificationEventuallyCleared ==
    ErrorShown ~> ~ErrorShown


\* a rectangle whose corner radius is more than half its shorter side
RectangleOversized(cfg) ==
    /\ cfg.form = "rectangle"
    /\ RLt(RMin(cfg.width, cfg.height), RMul(R(2), cfg.cornerRadius))

\* radius and straight edge lengths of a rounded rectangle path: the radius is
\* the distance from a corner to the end of its curve, an edge runs from the
\* end of one curve to the start of the next
RoundedRadius(path) ==
    IF path[3][1] = "arcTo" THEN path[3][6] ELSE RSub(path[3][5], path[3][3])
RoundedEdgeX(path) == RSub(path[2][2], path[1][2])
RoundedEdgeY(path) == RSub(path[4][3], path[3][5])

RoundedClamped(path, cfg) ==
    /\ Len(path) >= 9
    /\ RoundedRadius(path) = RDiv(RMin(cfg.width, cfg.height), R(2))
    /\ RLeq(R(0), RoundedEdgeX(path))
    /\ RLeq(R(0), RoundedEdgeY(path))

\* C15: for a rectangle with 2 * cornerRadius > min(width, height) the 2D
\* canvas and the 3D extrusion builders use the radius min(width, height) / 2,
\* so the straight edges width - 2r' and height - 2r' are never negative.
C15_OversizedRadiusClamped ==
    rendered # Null /\ RectangleOversized(rendered[1].config) =>
        /\ RoundedClamped(rendered[1].canvas, rendered[1].config)
        /\ RoundedClamped(rendered[1].solid, rendered[1].config)

\* the circle of radius width / 2 about the middle of the part, given the
\* position of the part's corner and the scale of the builder's frame
IsPartCircle(path, cfg, originX, originY, scale) ==
    /\ Len(path) = 1
    /\ path[1][1] \in {"arc", "absarc"}
    /\ path[1][2] = RAdd(originX, RMul(RDiv(cfg.width, R(2)), scale))
    /\ path[1][3] = RAdd(originY, RMul(RDiv(cfg.height, R(2)), scale))
    /\ path[1][4] = RMul(RDiv(cfg.width, R(2)), scale)

\* C16: for form = circle the 2D canvas renderers and the 3D extrusion builder
\* all draw the circle of radius width / 2 centred at the middle of the part,
\* whatever the height.
C16_CircleOfRadiusHalfWidth ==
    rendered # Null /\ rendered[1].config.form = "circle" =>
        LET cfg == rendered[1].config
            so == getScaleAndOffset(cfg, zoom, pan)
        IN  /\ IsPartCircle(rendered[1].canvas, cfg, R(0), R(0), R(1))
            /\ IsPartCircle(rendered[1].preview, cfg, so.offsetX, so.offsetY, so.scale)
            /\ IsPartCircle(rendered[1].solid, cfg, RNeg(RDiv(cfg.width, R(2))),
                            RNeg(RDiv(cfg.height, R(2))), R(1))

\* C17: for form = custom with fewer than 3 custom points the extrusion
\* builder produces no solid: the extruded outline is empty.
C17_FewPointsGiveNoSolid ==
    /\ rendered # Null
    /\ rendered[1].config.form = "custom"
    /\ Len(rendered[1].config.customPoints) < 3
    => rendered[1].solid = <<>>


IndexOfHole(cfg, id) ==
    CHOOSE i \in 1..Len(cfg.holes) :
        /\ cfg.holes[i].id = id
        /\ \A j \in 1..(i - 1) : cfg.holes[j].id # id

\* a pointer move with neither a drag nor a pan in progress
IdleMove == handleMouseMove /\ ~isPanning /\ draggingHole = Null

\* C19: while a hole is dragged, each pointer move sets that hole's position
\* to the pointer position minus the captured offset, converted to part space
\* and clamped to [radius, width - radius] x [radius, height - radius], and
\* changes no other hole; a pointer move with neither a drag nor a pan in
\* progress changes nothing in the config.
C19_DragSetsClampedPosition ==
    [][ /\ DragMove /\ findHoleById(config, draggingHole) # <<>> =>
            LET k == IndexOfHole(config, draggingHole)
                t == dragTarget(getCanvasCoordinates(ptr'), config.holes[k],
                                config, zoom, pan, dragOffset)
            IN  /\ Len(config'.holes) = Len(config.holes)
                /\ \A i \in 1..Len(config.holes) :
                      IF i = k
                      THEN config'.holes[i] = [config.holes[i] EXCEPT !.x = t.x, !.y = t.y]
                      ELSE config'.holes[i] = config.holes[i]
                /\ [config' EXCEPT !.holes = <<>>] = [config EXCEPT !.holes = <<>>]
        /\ IdleMove => config' = config ]_vars

\* a pointer down that begins the drag of a hole lying within the clamp bounds
DragBegins ==
    /\ handleMouseDown
    /\ draggingHole' # Null
    /\ HoleInBounds(config.holes[IndexOfHole(config, draggingHole')], config)

\* C20: beginning a drag captures the pixel offset between pointer and hole
\* centre, so that for a hole within the clamp bounds a pointer move to the
\* position of the pointer down leaves the hole's x and y unchanged.
C20_DragStartDoesNotJump ==
    [][ DragBegins =>
            LET k == IndexOfHole(config, draggingHole')
                t == dragTarget(getCanvasCoordinates(ptr), config.holes[k],
                                config, zoom, pan, dragOffset')
                after == handleHoleDrag(config, draggingHole', t.x, t.y)
            IN  /\ after.holes[k].x = config.holes[k].x
                /\ after.holes[k].y = config.holes[k].y ]_vars


\* the positions of the holes
HolePositions(cfg) == [i \in 1..Len(cfg.holes) |-> <<cfg.holes[i].x, cfg.holes[i].y>>]

\* C21: after a pointer up or a pointer leave no drag and no pan is in progress
\* (draggingHole is null, isPanning is false), and the pointer moves that
\* follow change no hole position and not the pan offset until the next
\* pointer down.
C21_UpEndsDragAndPan ==
    /\ [][ handleMouseUp \/ handleMouseLeave => draggingHole' = Null /\ ~isPanning' ]_vars
    /\ [](pressed = -1 => draggingHole = Null /\ ~isPanning)
    /\ [][ handleMouseMove /\ pressed = -1 =>
              HolePositions(config') = HolePositions(config) /\ pan' = pan ]_vars

\* a hole was dragged away from the centre of the part, the gesture has ended
\* and the pointer has since moved off the hole, which stayed behind
C21_MovedOnAfterDrag ==
    /\ Len(config.holes) = 1
    /\ config.width = R(400)
    /\ config.holes[1].x # R(200)
    /\ pressed = -1 /\ moved
    /\ draggingHole = Null /\ ~isPanning
    /\ pendingClick = "none"
    /\ LET coords == getCanvasCoordinates(ptr)
       IN  findHoleAtPosition(coords.x, coords.y, config, zoom, pan) = <<>>


\* a part-space coordinate within the bounds of the part
WithinPart(c, cfg) ==
    /\ RLeq(R(0), c.x) /\ RLeq(c.x, cfg.width)
    /\ RLeq(R(0), c.y) /\ RLeq(c.y, cfg.height)

\* the step appends exactly the point c and changes nothing else of the config
AppendsPoint(c) == config' = [config EXCEPT !.customPoints = Append(@, c)]

\* the part-space coordinate of the drawer click that is being delivered
DrawerClicked ==
    LET coords == drawerCanvasCoordinates(ptr)
    IN  drawerPartCoordinates(coords.x, coords.y, config)

\* the drawer click lands on an existing point (within the click radius)
DrawerClickOnPoint ==
    LET coords == drawerCanvasCoordinates(ptr)
    IN  findPointAtPosition(coords.x, coords.y, config)

\* the Canvas click lands on an existing point (its very coordinate)
CanvasClickOnPoint ==
    \E i \in 1..Len(config.customPoints) : config.customPoints[i] = rendered'[1].click

\* C22: while a custom polygon is drawn, a click that lands on an existing
\* point selects that point and appends nothing, and a click elsewhere within
\* the part bounds appends exactly one point at the clicked part-space
\* coordinate and leaves the earlier points and their order unchanged.
C22_ClickSelectsOrAppends ==
    [][ /\ drawerClick =>
              IF DrawerClickOnPoint # Null
              THEN selectedIndex' = DrawerClickOnPoint /\ config' = config
              ELSE WithinPart(DrawerClicked, config) => AppendsPoint(DrawerClicked)
        /\ canvasCustomClick =>
              IF CanvasClickOnPoint
              THEN config' = config
              ELSE WithinPart(rendered'[1].click, config) =>
                      AppendsPoint(rendered'[1].click) ]_vars

\* the same for the clicks of CustomShapeDrawer alone
C22_DrawerClickSelectsOrAppends ==
    [][ drawerClick =>
              IF DrawerClickOnPoint # Null
              THEN selectedIndex' = DrawerClickOnPoint /\ config' = config
              ELSE WithinPart(DrawerClicked, config) => AppendsPoint(DrawerClicked) ]_vars

\* C29: in CustomShapeDrawer the selected point index is always null or the
\* index of an existing point, after any sequence of click, drag, double
\* click, Undo, Clear and Delete Point.
C29_SelectedIndexValid ==
    selectedIndex = Null \/ selectedIndex[1] \in 1..Len(config.customPoints)

\* every field of the config but the holes is left as it was
OnlyHolesChange == [config' EXCEPT !.holes = <<>>] = [config EXCEPT !.holes = <<>>]

\* one hole more, the earlier holes in their places
HoleAppended ==
    /\ Len(config'.holes) = Len(config.holes) + 1
    /\ \A i \in 1..Len(config.holes) : config'.holes[i] = config.holes[i]
    /\ OnlyHolesChange

\* exactly the holes with the id are gone, the others keep their order
HolesRemoved(id) ==
    LET kept == {i \in 1..Len(config.holes) : config.holes[i].id # id}
        rank(i) == Cardinality({k \in kept : k <= i})
    IN  /\ Len(config'.holes) = Cardinality(kept)
        /\ \A i \in kept : config'.holes[rank(i)] = config.holes[i]
        /\ OnlyHolesChange

\* holes with another id are untouched, number and places are kept
HolesUpdated(id) ==
    /\ Len(config'.holes) = Len(config.holes)
    /\ \A i \in 1..Len(config.holes) :
          /\ config.holes[i].id # id => config'.holes[i] = config.holes[i]
          /\ config'.holes[i].id = config.holes[i].id
    /\ OnlyHolesChange

C24_PanExcludesDrag == isPanning => draggingHole = Null

C26_ResetGivesFreshStore ==
    [][ ResetConfig =>
            LET st == updateForm(config', customShapeFinalized', savedCustomShape', "custom")
            IN  /\ config' = defaultConfig
                /\ ~customShapeFinalized'
                /\ st.config.customPoints = <<>>
                /\ ~st.customShapeFinalized ]_vars

\* C27: a notification stays visible until its own auto-dismiss timer fires
\* or the user dismisses it: for any interleaving of Download CAD and Place
\* Order with timer firings, no timer started for an earlier notification
\* clears a notification that was set later.
C27_TimerClearsOwnNotification ==
    [][ timerFires /\ notification # Null =>
            \A t \in timers \ timers' : t.for >= notification[1].n ]_vars

\* C28: the debounced form-to-store synchronisation quiesces: after the last
\* user edit it performs finitely many store writes, and with no further
\* user input the store eventually stops changing (a store write caused by
\* the sync never schedules another store write).
C28_SyncQuiesces == <>[][storeWrites' = storeWrites]_vars

\* the same for the effects of DimensionsPanel alone
C28_PanelQuiesces == <>[](panelTimers = {})

\* the CAD files of the order whose handler is waiting for them
OrderFiles == {<<"part", orders[1].orderId, "step">>, <<"part", orders[1].orderId, "dxf">>}

\* the step at which generateCADFiles settles for the Place Order action
OrderFilesSettle ==
    /\ orders # <<>>
    /\ orders[1].pc = "generateCADFiles"
    /\ orders' # orders

\* C30: Place Order reports success (success notification and download of the
\* CAD files) exactly when the result of submitOrder has status 'pending';
\* every other status, 'processing' and 'completed' included, is reported as
\* an order failure, and in every outcome isOrdering is reset to false.
C30_SuccessOnlyWhenPending ==
    [][ /\ OrderSettles =>
              IF lastOrder'[1].result.status = "pending"
              THEN /\ notification'[1].type = "success"
                   /\ orderStatus' = "Order submitted"
                   /\ Len(orders') = 1 /\ orders'[1].pc = "generateCADFiles"
              ELSE /\ notification'[1].type = "error"
                   /\ notification'[1].message = "Order failed"
                   /\ orderStatus' = "Order failed"
                   /\ savedFiles' = savedFiles
                   /\ orders' = <<>>
        /\ OrderFilesSettle =>
              /\ OrderFiles \subseteq savedFiles'
              /\ orderStatus' = "Order submitted"
              /\ orders' = <<>>
        /\ orders' = <<>> => ~isOrdering' ]_vars

\* the backend accepted the order with status 'processing' and the user was
\* told that the order failed
C30_ProcessingReportedAsFailure ==
    /\ lastOrder # Null
    /\ lastOrder[1].net.order = "ok" /\ lastOrder[1].net.json = "ok"
    /\ lastOrder[1].result.status = "processing"
    /\ notification # Null
    /\ notification[1].type = "error" /\ notification[1].message = "Order failed"
    /\ orderStatus = "Order failed"
    /\ savedFiles = {}
    /\ ~isOrdering

====
